---------------------------- MODULE Spec2Model ----------------------------
(***************************************************************************)
(* Model of the per-session turn scheduling of BasePlatformAdapter         *)
(* (src/gateway/platforms/base.py): handle_message, the background worker  *)
(* _process_message_background with its suspension points, and the two     *)
(* query methods has_pending_interrupt / get_pending_message.              *)
(*                                                                         *)
(* The adapter runs on one asyncio event loop.  Code between two awaits    *)
(* is one atomic step; a task created with asyncio.create_task starts      *)
(* later, in creation order (the loop's ready queue is FIFO).  An await    *)
(* of the handler or of a send either completes without suspending (the    *)
(* frame goes on in the same step of the loop) or suspends the frame,      *)
(* which then resumes after every task that was already created when it    *)
(* suspended has started.  Awaiting the cancelled typing task always       *)
(* suspends.  handle_message contains no await and is one atomic step.     *)
(*                                                                         *)
(* Two further specifications share the module: RouterSpec, one request    *)
(* through DeliveryRouter.resolve_targets and deliver                      *)
(* (src/gateway/delivery.py), and CronSpec, one tick() of the cron         *)
(* scheduler (src/cron/scheduler.py).  Each specification leaves the       *)
(* variables of the others at their idle values.                           *)
(***************************************************************************)
EXTENDS Integers, Sequences, FiniteSets, TLC

\* ------------------------------------------------------------------ bounds
MaxEvents == 3          \* number of MessageEvents the platforms deliver
NumChats == 2           \* number of distinct chat ids
MaxImages == 1          \* images extracted from one response

Chats == 1..NumChats
EventIds == 1..MaxEvents
NoEvent == 0            \* "key not in dict" / None

VARIABLES
    message_handler,    \* self._message_handler is set
    events,             \* the MessageEvents handle_message has kept, in submission order
    ready,              \* worker tasks created by create_task and not started yet (FIFO)
    ahead,              \* per frame: tasks of ready that were created before the frame last ran
    running,            \* the frame that ran the last step of the loop (NoEvent: none)
    active_sessions,    \* self._active_sessions: chat -> owner of the registered asyncio.Event
    isSet,              \* the asyncio.Event created by each worker frame: is_set()
    pending_messages,   \* self._pending_messages: chat -> event
    pc,                 \* position of the worker frame driven by each event
    caller,             \* the frame that called this frame at line 346 (NoEvent: a task)
    pending_event,      \* local pending_event of a frame (line 335)
    response,           \* what is left to send of the frame's response
    failed,             \* the frame went through "except Exception" (line 349)
    typing,             \* the frame's typing_task
    turns,              \* history, per chat: events in the order their handler was invoked
    queued,             \* history: events handle_message stored in the pending slot
    superseded          \* history: events overwritten in the pending slot

schedVars == <<message_handler, events, ready, ahead, running, active_sessions, isSet,
               pending_messages, pc, caller, pending_event, response, failed, typing,
               turns, queued, superseded>>

\* state of one DeliveryRouter call sequence (src/gateway/delivery.py)
VARIABLES
    deliver,            \* resolve_targets: the deliver argument, a list of target strings
    origin,             \* resolve_targets: the origin argument (None or a SessionSource)
    home_channel,       \* config: platform -> chat id of its home channel, or None
    always_log_local,   \* config.always_log_local
    adapters,           \* self.adapters: the platforms that have an adapter
    targets,            \* the list resolve_targets returned, given to deliver()
    rpc,                \* position of the router: "idle", "resolve", "deliver", "done", "raised"
    results,            \* the results dict of deliver(): key -> entry
    attempts,           \* history: per target of deliver(), in order, what its delivery did
    in_flight           \* the index of the target whose adapter.send deliver() awaits, or None

routerVars == <<deliver, origin, home_channel, always_log_local, adapters, targets, rpc,
                results, attempts, in_flight>>

\* state of one tick() of the cron scheduler (src/cron/scheduler.py)
VARIABLES
    due_jobs,           \* the list get_due_jobs() returned
    cpc,                \* position of tick(): "idle", "run", "save", "mark", "except", "done", "raised"
    job_i,              \* index in due_jobs of the job the for loop is at
    run_result,         \* (success, error) run_job returned for the current job
    executed,           \* the counter tick() returns
    calls               \* history: the calls tick() made, in order

cronVars == <<due_jobs, cpc, job_i, run_result, executed, calls>>

\* ------------------------------------------ state of the other specifications
\* state of the gateway configuration (src/gateway/config.py)
VARIABLES
    file,               \* the parsed content of ~/.hermes/gateway.json (None: missing or unreadable)
    env,                \* os.environ: variable name -> value (None: not set)
    config,             \* the GatewayConfig (None: not built yet)
    query,              \* the arguments of the last get_reset_policy call (None: no call yet)
    policy              \* what that call returned

cfgVars == <<file, env, config, query, policy>>

\* state of one adapter send: truncate_message (src/gateway/platforms/base.py) and the chunk loop (src/gateway/platforms/telegram.py)
VARIABLES
    content,            \* the content argument
    max_length,         \* the max_length argument
    chunks,             \* the list returned (None: not returned yet)
    sent,               \* the chunks given to the platform's send call, in call order
    send_result         \* the success of the SendResult that send returned (None: not returned yet)

splitVars == <<content, max_length, chunks, sent, send_result>>

\* state of one response going through extract_images and the image loop (src/gateway/platforms/base.py)
VARIABLES
    segments,           \* the pieces the response was written from: text characters and image tags
    response_text,      \* response (line 293), the content argument of extract_images
    images,             \* the (url, alt_text) pairs extract_images returned
    cleaned,            \* the cleaned content extract_images returned
    ipc,                \* position of the worker: idle, extract, text, images, done
    text_sent,          \* the content given to send for the text portion (None: no such send)
    image_sends,        \* the (image_url, caption) arguments of the send_image calls, in call order
    image_errors        \* number of send_image calls that failed or raised

imgVars == <<segments, response_text, images, cleaned, ipc, text_sent, image_sends, image_errors>>

\* state of one Discord message going through on_message (src/gateway/platforms/discord.py)
VARIABLES
    message,            \* the DiscordMessage given to on_message (None: no message)
    free_channels_raw,  \* os.getenv("DISCORD_FREE_RESPONSE_CHANNELS") (None: not set)
    require_mention_raw,\* os.getenv("DISCORD_REQUIRE_MENTION") (None: not set)
    gpc,                \* position: idle, on_message, _handle_message, done
    forwarded           \* the MessageEvent given to handle_message (None: no call)

gateVars == <<message, free_channels_raw, require_mention_raw, gpc, forwarded>>

\* state of one send_message tool call or one _validate_file_path call (src/tools/send_message_tool.py)
VARIABLES
    args,               \* the args of the call: action, target, message, file_path (None: no call)
    trusted_extra,      \* HERMES_TRUSTED_DOCUMENT_DIRS names the extra directory
    tpc,                \* position: idle, call, done
    validation,         \* what _validate_file_path returned: an error or None, in Some (None: not called)
    resolved,           \* what the file system answered for file_path: real_path and what is there (None: not asked)
    tool_result,        \* the JSON send_message_tool returned (None: not called or not returned)
    tool_calls          \* the file system, configuration and platform calls made, in order

toolVars == <<args, trusted_extra, tpc, validation, resolved, tool_result, tool_calls>>

\* state of the local sink of the DeliveryRouter (src/gateway/delivery.py)
VARIABLES
    now,                \* datetime.now(), in ticks of the clock
    files,              \* the output directory: path -> content of the file
    local_results       \* history: the job_id argument and the result of each _deliver_local call

localVars == <<now, files, local_results>>

restVars == <<cfgVars, splitVars, imgVars, gateVars, toolVars, localVars>>

\* what a step of ConfigSpec and LoadSpec leaves alone
notCfg == <<schedVars, routerVars, cronVars, splitVars, imgVars, gateVars, toolVars, localVars>>

\* what a step of SplitSpec leaves alone
notSplit == <<schedVars, routerVars, cronVars, cfgVars, imgVars, gateVars, toolVars, localVars>>

\* what a step of ExtractSpec leaves alone
notImg == <<schedVars, routerVars, cronVars, cfgVars, splitVars, gateVars, toolVars, localVars>>

\* what a step of GateSpec leaves alone
notGate == <<schedVars, routerVars, cronVars, cfgVars, splitVars, imgVars, toolVars, localVars>>

\* what a step of ToolSpec leaves alone
notTool == <<schedVars, routerVars, cronVars, cfgVars, splitVars, imgVars, gateVars, localVars>>

\* what a step of LocalSpec leaves alone
notLocal == <<schedVars, routerVars, cronVars, cfgVars, splitVars, imgVars, gateVars, toolVars>>

\* no configuration is loaded or queried
CfgIdle ==
    /\ file = <<>>
    /\ env = <<>>
    /\ config = <<>>
    /\ query = <<>>
    /\ policy = <<>>

\* no send is in progress
SplitIdle ==
    /\ content = <<>>
    /\ max_length = 0
    /\ chunks = <<>>
    /\ sent = <<>>
    /\ send_result = <<>>

\* no response is being split
ImgIdle ==
    /\ segments = <<>>
    /\ response_text = <<>>
    /\ images = <<>>
    /\ cleaned = <<>>
    /\ ipc = "idle"
    /\ text_sent = <<>>
    /\ image_sends = <<>>
    /\ image_errors = 0

\* no Discord message is being handled
GateIdle ==
    /\ message = <<>>
    /\ free_channels_raw = <<>>
    /\ require_mention_raw = <<>>
    /\ gpc = "idle"
    /\ forwarded = <<>>

\* the send_message tool is not called
ToolIdle ==
    /\ args = <<>>
    /\ trusted_extra = FALSE
    /\ tpc = "idle"
    /\ validation = <<>>
    /\ resolved = <<>>
    /\ tool_result = <<>>
    /\ tool_calls = <<>>

\* nothing is delivered to local files
LocalIdle ==
    /\ now = 0
    /\ files = <<>>
    /\ local_results = <<>>

RestIdle ==
    /\ CfgIdle
    /\ SplitIdle
    /\ ImgIdle
    /\ GateIdle
    /\ ToolIdle
    /\ LocalIdle

vars == <<schedVars, routerVars, cronVars, restVars>>

\* MessageEvent: only the source field that decides the session (line 268)
MessageEvent == [chat_id : Chats]

\* responses of the handler after extract_images: text_content present, number of images
NoResponse == [text |-> FALSE, images |-> 0]
Responses == [text : BOOLEAN, images : 0..MaxImages]

\* outcomes of an adapter send: SendResult.success, not success, or an exception
SendOutcomes == {"ok", "fail", "raise"}

\* line 268: session_key = event.source.chat_id
session_key(e) == events[e].chat_id

\* ----------------------------------------------------------- dict helpers
\* line 274: self._pending_messages[session_key] = event
StorePendingKeepFirst(p, k, e) == IF p[k] # NoEvent THEN p ELSE [p EXCEPT ![k] = e]
StorePending(p, k, e) == [p EXCEPT ![k] = e]

\* lines 285-286: interrupt_event = asyncio.Event(); self._active_sessions[session_key] = interrupt_event
RegisterReuse(a, k, e) == IF a[k] # NoEvent THEN a ELSE [a EXCEPT ![k] = e]
Register(a, k, e) == [a EXCEPT ![k] = e]

\* lines 338-339 and 361-362: if session_key in self._active_sessions: del self._active_sessions[session_key]
DelActiveNone(a, k) == a
DelActiveAll(a, k) == [c \in Chats |-> NoEvent]
DelActive(a, k) == [a EXCEPT ![k] = NoEvent]

\* line 335: self._pending_messages.pop(session_key)
PopPending(p, k) == [p EXCEPT ![k] = NoEvent]

\* lines 364-366
has_pending_interrupt(k) ==
    active_sessions[k] # NoEvent /\ isSet[active_sessions[k]]

\* the frames below frame e on the call stack (e called at line 346 by caller[e], ...)
RECURSIVE Callers(_)
Callers(e) == IF caller[e] = NoEvent THEN {} ELSE {caller[e]} \cup Callers(caller[e])

\* the loop: a suspended frame resumes once the tasks created before it
\* suspended have started (asyncio runs its ready queue in order)
CanResume(e) == ahead[e] = 0

\* an await that may complete without suspending: the frame goes on at once,
\* or it was suspended and resumes
CanGoOn(e) == running = e \/ CanResume(e)

\* frame e ran up to its next await with the tasks of q created and not started
Ran(e, aheadB, q) ==
    /\ ahead' = [aheadB EXCEPT ![e] = Len(q)]
    /\ running' = e

\* no DeliveryRouter call is in progress
RouterIdle ==
    /\ deliver = <<>>
    /\ origin = <<>>
    /\ home_channel = <<>>
    /\ always_log_local = FALSE
    /\ adapters = {}
    /\ targets = <<>>
    /\ rpc = "idle"
    /\ results = <<>>
    /\ attempts = <<>>
    /\ in_flight = <<>>

\* no tick() is in progress
CronIdle ==
    /\ due_jobs = <<>>
    /\ cpc = "idle"
    /\ job_i = 0
    /\ run_result = <<>>
    /\ executed = 0
    /\ calls = <<>>

\* the adapter after construction (lines 107-116)
SchedIdle ==
    /\ message_handler = FALSE
    /\ events = <<>>
    /\ ready = <<>>
    /\ ahead = [e \in EventIds |-> 0]
    /\ running = NoEvent
    /\ active_sessions = [c \in Chats |-> NoEvent]
    /\ isSet = [e \in EventIds |-> FALSE]
    /\ pending_messages = [c \in Chats |-> NoEvent]
    /\ pc = [e \in EventIds |-> "idle"]
    /\ caller = [e \in EventIds |-> NoEvent]
    /\ pending_event = [e \in EventIds |-> NoEvent]
    /\ response = [e \in EventIds |-> NoResponse]
    /\ failed = [e \in EventIds |-> FALSE]
    /\ typing = [e \in EventIds |-> "none"]
    /\ turns = [c \in Chats |-> <<>>]
    /\ queued = {}
    /\ superseded = {}

\* ------------------------------------------ all but one specification idle
notCfgIdle ==
    /\ SchedIdle
    /\ RouterIdle
    /\ CronIdle
    /\ SplitIdle
    /\ ImgIdle
    /\ GateIdle
    /\ ToolIdle
    /\ LocalIdle

notSplitIdle ==
    /\ SchedIdle
    /\ RouterIdle
    /\ CronIdle
    /\ CfgIdle
    /\ ImgIdle
    /\ GateIdle
    /\ ToolIdle
    /\ LocalIdle

notImgIdle ==
    /\ SchedIdle
    /\ RouterIdle
    /\ CronIdle
    /\ CfgIdle
    /\ SplitIdle
    /\ GateIdle
    /\ ToolIdle
    /\ LocalIdle

notGateIdle ==
    /\ SchedIdle
    /\ RouterIdle
    /\ CronIdle
    /\ CfgIdle
    /\ SplitIdle
    /\ ImgIdle
    /\ ToolIdle
    /\ LocalIdle

notToolIdle ==
    /\ SchedIdle
    /\ RouterIdle
    /\ CronIdle
    /\ CfgIdle
    /\ SplitIdle
    /\ ImgIdle
    /\ GateIdle
    /\ LocalIdle

notLocalIdle ==
    /\ SchedIdle
    /\ RouterIdle
    /\ CronIdle
    /\ CfgIdle
    /\ SplitIdle
    /\ ImgIdle
    /\ GateIdle
    /\ ToolIdle

\* ------------------------------------------------------------------- Init
Init ==
    /\ SchedIdle
    /\ RouterIdle
    /\ CronIdle
    /\ RestIdle

\* ---------------------------------------------------------------- actions
\* lines 128-135
set_message_handler ==
    /\ UNCHANGED <<routerVars, cronVars, restVars>>
    /\ ~message_handler
    /\ message_handler' = TRUE
    /\ running' = NoEvent
    /\ UNCHANGED <<events, ready, ahead, active_sessions, isSet, pending_messages, pc, caller,
                   pending_event, response, failed, typing, turns, queued, superseded>>

\* lines 257-280, one atomic step (no await)
handle_message(ev) ==
    /\ UNCHANGED <<routerVars, cronVars, restVars>>
    /\ Len(events) < MaxEvents
    /\ LET e == Len(events) + 1
           k == ev.chat_id
       IN IF ~message_handler
            THEN \* lines 265-266: the event is dropped, nothing keeps it
                 UNCHANGED <<events, ready, active_sessions, isSet, pending_messages, pc,
                             queued, superseded>>
            ELSE IF active_sessions[k] # NoEvent
                 THEN \* lines 271-277
                      /\ events' = Append(events, ev)
                      /\ pending_messages' = StorePending(pending_messages, k, e)
                      /\ isSet' = [isSet EXCEPT ![active_sessions[k]] = TRUE]
                      /\ queued' = queued \cup {e}
                      /\ superseded' = superseded \cup ({pending_messages[k]} \ {NoEvent})
                      /\ UNCHANGED <<ready, active_sessions, pc>>
                 ELSE \* line 280
                      /\ events' = Append(events, ev)
                      /\ ready' = Append(ready, e)
                      /\ pc' = [pc EXCEPT ![e] = "spawned"]
                      /\ UNCHANGED <<active_sessions, isSet, pending_messages, queued,
                                     superseded>>
    /\ running' = NoEvent
    /\ UNCHANGED <<message_handler, ahead, caller, pending_event, response, failed, typing,
                   turns>>

\* lines 284-293: the frame for event e, called by frame from, registers its
\* interrupt, starts its typing task and calls the handler; it suspends in the
\* handler.  pcB and typingB are pc and typing as the caller leaves them.
Begin(e, from, pcB, typingB) ==
    /\ active_sessions' = Register(active_sessions, session_key(e), e)
    /\ isSet' = [isSet EXCEPT ![e] = FALSE]
    /\ typing' = [typingB EXCEPT ![e] = "running"]
    /\ pc' = [pcB EXCEPT ![e] = "handler"]
    /\ caller' = [caller EXCEPT ![e] = from]
    /\ turns' = [turns EXCEPT ![session_key(e)] = Append(@, e)]

\* the event loop starts the oldest created worker task
StartWorker ==
    /\ UNCHANGED <<routerVars, cronVars, restVars>>
    /\ ready # <<>>
    /\ ready' = Tail(ready)
    /\ Begin(Head(ready), NoEvent, pc, typing)
    /\ Ran(Head(ready), [f \in EventIds |-> IF ahead[f] > 0 THEN ahead[f] - 1 ELSE 0], Tail(ready))
    /\ UNCHANGED <<message_handler, events, pending_messages, pending_event, response,
                   failed, queued, superseded>>

\* lines 333-344 and 353-357, entered without suspension once the sends are over:
\* either take the pending event, drop the session entry and wait for the
\* cancelled typing task (line 342), or fall to the finally block and wait for
\* the cancelled typing task (line 357)
AfterSends(e) ==
    LET k == session_key(e)
    IN IF pending_messages[k] # NoEvent
         THEN /\ pending_event' = [pending_event EXCEPT ![e] = pending_messages[k]]
              /\ pending_messages' = PopPending(pending_messages, k)
              /\ active_sessions' = DelActive(active_sessions, k)
              /\ typing' = [typing EXCEPT ![e] = "cancelling"]
              /\ pc' = [pc EXCEPT ![e] = "handoff"]
         ELSE /\ typing' = [typing EXCEPT ![e] = "cancelling"]
              /\ pc' = [pc EXCEPT ![e] = "finally"]
              /\ UNCHANGED <<pending_event, pending_messages, active_sessions>>

\* lines 349-357: an exception of the try block is printed; the finally block
\* cancels the typing task and waits for it
ExceptKeepTyping(e) ==
    /\ failed' = [failed EXCEPT ![e] = TRUE]
    /\ pc' = [pc EXCEPT ![e] = "finally"]
    /\ UNCHANGED <<pending_event, pending_messages, active_sessions, typing>>
Except(e) ==
    /\ failed' = [failed EXCEPT ![e] = TRUE]
    /\ typing' = [typing EXCEPT ![e] = "cancelling"]
    /\ pc' = [pc EXCEPT ![e] = "finally"]
    /\ UNCHANGED <<pending_event, pending_messages, active_sessions>>

\* after the text sends: the image loop (line 321) or the pending check.
\* r is what is left of the response.
AfterText(e, r) ==
    IF r.images > 0
      THEN /\ pc' = [pc EXCEPT ![e] = "image"]
           /\ UNCHANGED <<pending_event, pending_messages, active_sessions, typing>>
      ELSE AfterSends(e)

\* line 293 returns r (already split by extract_images, line 298); lines 296-301
HandlerReturn(e, r) ==
    /\ UNCHANGED <<routerVars, cronVars, restVars>>
    /\ pc[e] = "handler"
    /\ CanGoOn(e)
    /\ Ran(e, ahead, ready)
    /\ response' = [response EXCEPT ![e] = r]
    /\ IF r.text
         THEN /\ pc' = [pc EXCEPT ![e] = "send"]
              /\ UNCHANGED <<pending_event, pending_messages, active_sessions, typing>>
         ELSE AfterText(e, r)
    /\ UNCHANGED <<message_handler, events, ready, isSet, caller, failed, turns,
                   queued, superseded>>

\* line 293 raises
HandlerRaise(e) ==
    /\ UNCHANGED <<routerVars, cronVars, restVars>>
    /\ pc[e] = "handler"
    /\ CanGoOn(e)
    /\ Ran(e, ahead, ready)
    /\ Except(e)
    /\ UNCHANGED <<message_handler, events, ready, isSet, caller, response, turns,
                   queued, superseded>>

\* lines 302-309: the send of the text returns or raises
SendDone(e, o) ==
    /\ UNCHANGED <<routerVars, cronVars, restVars>>
    /\ pc[e] = "send"
    /\ CanGoOn(e)
    /\ Ran(e, ahead, ready)
    /\ CASE o = "ok" ->
              /\ response' = [response EXCEPT ![e].text = FALSE]
              /\ AfterText(e, response[e])
              /\ UNCHANGED failed
         [] o = "fail" ->
              /\ pc' = [pc EXCEPT ![e] = "fallback"]
              /\ UNCHANGED <<response, pending_event, pending_messages, active_sessions,
                             typing, failed>>
         [] o = "raise" ->
              /\ Except(e)
              /\ UNCHANGED response
    /\ UNCHANGED <<message_handler, events, ready, isSet, caller, turns, queued, superseded>>

\* lines 312-318: the plain-text fallback send returns or raises
FallbackDoneSkipImages(e, o) ==
    /\ UNCHANGED <<routerVars, cronVars, restVars>>
    /\ pc[e] = "fallback"
    /\ CanGoOn(e)
    /\ Ran(e, ahead, ready)
    /\ IF o = "raise"
         THEN /\ Except(e)
              /\ UNCHANGED response
         ELSE /\ response' = [response EXCEPT ![e].text = FALSE]
              /\ IF o = "fail" THEN AfterSends(e) ELSE AfterText(e, response[e])
              /\ UNCHANGED failed
    /\ UNCHANGED <<message_handler, events, ready, isSet, caller, turns, queued, superseded>>
FallbackDone(e, o) ==
    /\ UNCHANGED <<routerVars, cronVars, restVars>>
    /\ pc[e] = "fallback"
    /\ CanGoOn(e)
    /\ Ran(e, ahead, ready)
    /\ IF o = "raise"
         THEN /\ Except(e)
              /\ UNCHANGED response
         ELSE /\ response' = [response EXCEPT ![e].text = FALSE]
              /\ AfterText(e, response[e])
              /\ UNCHANGED failed
    /\ UNCHANGED <<message_handler, events, ready, isSet, caller, turns, queued, superseded>>

\* lines 321-331: one send_image returns or raises; the exception is caught per image
ImageDone(e, o) ==
    /\ UNCHANGED <<routerVars, cronVars, restVars>>
    /\ pc[e] = "image"
    /\ CanGoOn(e)
    /\ Ran(e, ahead, ready)
    /\ response' = [response EXCEPT ![e].images = @ - 1]
    /\ IF response[e].images > 1
         THEN UNCHANGED <<pc, pending_event, pending_messages, active_sessions, typing>>
         ELSE AfterSends(e)
    /\ UNCHANGED <<message_handler, events, ready, isSet, caller, failed, turns,
                   queued, superseded>>

\* lines 342-346: the cancelled typing task is over; the frame calls
\* _process_message_background(pending_event, session_key), which runs to the
\* handler call of the new frame
HandoffResume(e) ==
    /\ UNCHANGED <<routerVars, cronVars, restVars>>
    /\ pc[e] = "handoff"
    /\ CanResume(e)
    /\ Ran(pending_event[e], [ahead EXCEPT ![e] = 0], ready)
    /\ Begin(pending_event[e], e, [pc EXCEPT ![e] = "inner"],
             [typing EXCEPT ![e] = "done"])
    /\ UNCHANGED <<message_handler, events, ready, pending_messages, pending_event,
                   response, failed, queued, superseded>>

\* lines 357-362: the cancelled typing task is over; the frame removes the
\* session entry and returns.  Its callers return at line 347 through their
\* own finally blocks (typing task already over, entry already removed)
\* without suspending.
FinallyResume(e) ==
    /\ UNCHANGED <<routerVars, cronVars, restVars>>
    /\ pc[e] = "finally"
    /\ CanResume(e)
    /\ running' = NoEvent
    /\ UNCHANGED ahead
    /\ active_sessions' = DelActive(active_sessions, session_key(e))
    /\ typing' = [typing EXCEPT ![e] = "done"]
    /\ pc' = [f \in EventIds |-> IF f = e \/ f \in Callers(e) THEN "done" ELSE pc[f]]
    /\ LET gone == {e} \cup Callers(e)
       IN \* the locals of the returning frames (response, pending_event,
          \* interrupt_event) are no longer referenced
          /\ response' = [f \in EventIds |-> IF f \in gone THEN NoResponse ELSE response[f]]
          /\ pending_event' = [f \in EventIds |->
                                  IF f \in gone THEN NoEvent ELSE pending_event[f]]
          /\ isSet' = [f \in EventIds |-> IF f \in gone THEN FALSE ELSE isSet[f]]
    /\ UNCHANGED <<message_handler, events, ready, pending_messages, caller,
                   failed, turns, queued, superseded>>

\* lines 368-370
get_pending_message(k) ==
    /\ UNCHANGED <<routerVars, cronVars, restVars>>
    /\ pending_messages[k] # NoEvent
    /\ pending_messages' = PopPending(pending_messages, k)
    /\ running' = NoEvent
    /\ UNCHANGED <<message_handler, events, ready, ahead, active_sessions, isSet, pc, caller,
                   pending_event, response, failed, typing, turns, queued, superseded>>

Next ==
    \/ set_message_handler
    \/ \E ev \in MessageEvent : handle_message(ev)
    \/ StartWorker
    \/ \E e \in EventIds, r \in Responses : HandlerReturn(e, r)
    \/ \E e \in EventIds : HandlerRaise(e)
    \/ \E e \in EventIds, o \in SendOutcomes : SendDone(e, o)
    \/ \E e \in EventIds, o \in SendOutcomes : FallbackDone(e, o)
    \/ \E e \in EventIds, o \in SendOutcomes : ImageDone(e, o)
    \/ \E e \in EventIds : HandoffResume(e)
    \/ \E e \in EventIds : FinallyResume(e)
    \/ \E k \in Chats : get_pending_message(k)

Spec == Init /\ [][Next]_vars

TypeOK ==
    /\ message_handler \in BOOLEAN
    /\ events \in Seq(MessageEvent) /\ Len(events) <= MaxEvents
    /\ \A k \in Chats : active_sessions[k] \in EventIds \cup {NoEvent}
    /\ \A k \in Chats : pending_messages[k] \in EventIds \cup {NoEvent}

\* ------------------------------------------------- notions used by the claims
Submitted == 1..Len(events)

\* the frame driven by e is running its turn: suspended in the handler or in a send
InTurn(e) == pc[e] \in {"handler", "send", "fallback", "image"}

\* the frame driven by e is suspended in a send to the chat of e
Sending(e) == pc[e] \in {"send", "fallback", "image"}

\* the frame driven by e has started and has not returned
Live(e) == pc[e] \in {"handler", "send", "fallback", "image", "handoff", "inner", "finally"}

\* the step ends the frame driven by e
Ends(e) == pc[e] = "finally" /\ pc'[e] = "done"

\* the step is handle_message for an event of chat k, with a handler installed
Handles(k) ==
    /\ message_handler
    /\ Len(events') = Len(events) + 1
    /\ events'[Len(events')].chat_id = k

\* the step is handle_message for chat k or a step of a worker of chat k
Actor(k) ==
    \/ Handles(k)
    \/ \E e \in Submitted : session_key(e) = k /\ pc'[e] # pc[e]

Max(S) == CHOOSE x \in S : \A y \in S : y <= x

\* the latest event of chat k that handle_message stored in the pending slot
LastQueued(k) ==
    LET Q == {e \in queued : session_key(e) = k}
    IN IF Q = {} THEN NoEvent ELSE Max(Q)

\* ----------------------------------------------------------------- claims

\* C1: for every session key, at every instant, at most one worker is running
\* a turn for that key.
C1_AtMostOneWorkerPerKey ==
    \A k \in Chats :
        Cardinality({e \in Submitted : session_key(e) = k /\ InTurn(e)}) <= 1

\* C2: the pending slot is latest-wins: what it holds, and what a worker takes
\* out of it to drive the next turn, is the last event stored for the session,
\* and an event that was overwritten in the slot never drives a turn.
C2_PendingLatestWins ==
    /\ [](\A k \in Chats :
            pending_messages[k] # NoEvent => pending_messages[k] = LastQueued(k))
    /\ [](\A k \in Chats : \A i \in DOMAIN turns[k] : turns[k][i] \notin superseded)
    /\ [][\A e \in Submitted :
            (pc[e] # "handoff" /\ pc'[e] = "handoff")
                => pending_event'[e] = LastQueued(session_key(e))]_vars

C2_Witness ==
    \E k \in Chats, b \in superseded :
        \E i \in DOMAIN turns[k], j \in DOMAIN turns[k] :
            /\ i < j
            /\ turns[k][i] < b /\ b < turns[k][j]
            /\ session_key(b) = k
            /\ caller[turns[k][j]] = turns[k][i]

\* C3: a turn that ends without an exception and leaves the session without a
\* registered worker leaves the pending slot empty.
C3_InactiveOnlyWhenNoPending ==
    [][\A e \in Submitted :
         (Ends(e) /\ ~failed[e] /\ active_sessions'[session_key(e)] = NoEvent)
             => pending_messages'[session_key(e)] = NoEvent]_vars

\* C4: within one session the events that drive turns do so in submission order.
C4_TurnsInSubmissionOrder ==
    \A k \in Chats : \A i \in DOMAIN turns[k], j \in DOMAIN turns[k] :
        i < j => turns[k][i] < turns[k][j]

\* C5: handle_message for a session whose turn is running starts no worker and
\* raises the interrupt, and has_pending_interrupt stays true until the turn
\* during which it was raised ends.
C5_InterruptRaisedAndHeld ==
    [][\A k \in Chats :
         /\ (Handles(k) /\ \E e \in Submitted : session_key(e) = k /\ InTurn(e))
               => (ready' = ready /\ has_pending_interrupt(k)')
         /\ \A e \in Submitted :
               (session_key(e) = k /\ active_sessions[k] = e
                  /\ has_pending_interrupt(k) /\ InTurn(e) /\ InTurn(e)')
               => has_pending_interrupt(k)']_vars

\* C6: when a worker invokes the message handler for a turn, the interrupt
\* registered for the session is the worker's own and is unset.
C6_InterruptClearedBeforeHandler ==
    [][\A e \in Submitted :
         (pc[e] # "handler" /\ pc'[e] = "handler")
             => /\ ~has_pending_interrupt(session_key(e))'
                /\ active_sessions'[session_key(e)] = e]_vars

C6_Witness ==
    \E e \in Submitted :
        /\ pc[e] = "handler"
        /\ caller[e] # NoEvent
        /\ isSet[caller[e]]
        /\ ~has_pending_interrupt(session_key(e))

C8_PendingResubmittedAfterFailure ==
    [][\A e \in Submitted :
         (Ends(e) /\ failed[e] /\ pending_messages[session_key(e)] # NoEvent)
             => \/ pc'[pending_messages[session_key(e)]] # "idle"
                \/ \E f \in Submitted :
                      session_key(f) = session_key(e) /\ Live(f)']_vars

\* C9: a worker that catches an exception of its turn sends a message to the
\* chat of the driving event before it ends.
C9_ErrorMessageSent ==
    [][\A e \in Submitted :
         (~failed[e] /\ failed'[e]) => Sending(e)']_vars

\* C10: handle_message and the workers of one chat leave the session entry,
\* the interrupt and the pending slot of every other chat unchanged, and a
\* created worker can start whatever the other sessions are doing.
C10_SessionsIndependent ==
    /\ [][\A k \in Chats : Actor(k) =>
            \A k2 \in Chats \ {k} :
                /\ active_sessions'[k2] = active_sessions[k2]
                /\ pending_messages'[k2] = pending_messages[k2]
                /\ has_pending_interrupt(k2)' = has_pending_interrupt(k2)]_vars
    /\ [][\A k \in Chats :
            (Handles(k) /\ active_sessions[k] = NoEvent)
                => ready' = Append(ready, Len(events'))]_vars
    /\ [](ready # <<>> => ENABLED StartWorker)

C10_Witness ==
    \E e \in Submitted, f \in Submitted :
        /\ session_key(e) # session_key(f)
        /\ InTurn(e) /\ isSet[e] /\ pending_messages[session_key(e)] # NoEvent
        /\ pc[f] = "handler" /\ ~isSet[f] /\ pending_messages[session_key(f)] = NoEvent
        /\ e < f


\* ------------------------------------------------- threads of a chat (C11)
NumThreads == 2         \* number of distinct thread ids of one chat

ThreadIds == 1..NumThreads

\* lines 372-390: build_source gives the event's source a chat_id and a thread_id
ThreadedEvent == [chat_id : Chats, thread_id : ThreadIds]

\* the adapter fed with events of several threads of its chats
NextThreads ==
    \/ set_message_handler
    \/ \E ev \in ThreadedEvent : handle_message(ev)
    \/ StartWorker
    \/ \E e \in EventIds, r \in Responses : HandlerReturn(e, r)
    \/ \E e \in EventIds : HandlerRaise(e)
    \/ \E e \in EventIds, o \in SendOutcomes : SendDone(e, o)
    \/ \E e \in EventIds, o \in SendOutcomes : FallbackDone(e, o)
    \/ \E e \in EventIds, o \in SendOutcomes : ImageDone(e, o)
    \/ \E e \in EventIds : HandoffResume(e)
    \/ \E e \in EventIds : FinallyResume(e)
    \/ \E k \in Chats : get_pending_message(k)

SpecThreads == Init /\ [][NextThreads]_vars

\* the session of an event as the specification defines it: chat and thread
\* (the platform is the adapter's own)
SameSession(ev1, ev2) == ev1.chat_id = ev2.chat_id /\ ev1.thread_id = ev2.thread_id

\* C11: a message in one thread of a chat neither raises the interrupt of an
\* active turn of another thread of the same chat, nor is queued as pending
\* unless a turn of its own session (chat and thread) is active.
C11_ThreadsAreSeparateSessions ==
    [][Len(events') = Len(events) + 1 =>
         LET n == Len(events')
         IN /\ \A e \in Submitted :
                  Live(e) /\ ~SameSession(events[e], events'[n]) => isSet'[e] = isSet[e]
            /\ n \in queued' =>
                  \E e \in Submitted : Live(e) /\ SameSession(events[e], events'[n])]_vars


\* ---------------------------------------- delivery routing (delivery.py)
\* A Python str is modelled as a sequence of atoms (words and separators no
\* one of which is a concatenation of others): two strings are equal exactly
\* when their sequences are.  Optional values are None or Some(v).
MaxSpecs == 2           \* length of the deliver list given to resolve_targets

None == <<>>
Some(v) == <<v>>

\* src/gateway/config.py lines 19-24: the values of the Platform enum
Platform_LOCAL == "local"
PlatformValues == {"local", "telegram", "discord", "whatsapp"}

\* str.lower() on one atom, and on a string
LowerAtom(a) == CASE a = "C1" -> "c1"
                  [] a = "Telegram" -> "telegram"
                  [] a = "False" -> "false"
                  [] a = "NO" -> "no"
                  [] OTHER -> a
lower(str) == [i \in 1..Len(str) |-> LowerAtom(str[i])]

\* the whitespace characters str.strip() and str.lstrip() remove
Whitespace == {" ", "\n", "\t"}

\* str.strip(): leading and trailing whitespace removed
RECURSIVE lstrip(_)
lstrip(str) == IF str # <<>> /\ Head(str) \in Whitespace THEN lstrip(Tail(str)) ELSE str
RECURSIVE rstrip(_)
rstrip(str) == IF str # <<>> /\ str[Len(str)] \in Whitespace
                 THEN rstrip(SubSeq(str, 1, Len(str) - 1)) ELSE str
strip(str) == rstrip(lstrip(str))

\* ":" in target, and target.split(":", 1)
HasColon(str) == \E i \in 1..Len(str) : str[i] = ":"
FirstColon(str) == CHOOSE i \in 1..Len(str) : str[i] = ":" /\ \A j \in 1..(i - 1) : str[j] # ":"
split1(str) == <<SubSeq(str, 1, FirstColon(str) - 1), SubSeq(str, FirstColon(str) + 1, Len(str))>>

\* Platform(value) succeeds; otherwise it raises ValueError
IsPlatform(str) == Len(str) = 1 /\ str[1] \in PlatformValues

\* delivery.py lines 22-36: the DeliveryTarget dataclass
DeliveryTarget(platform, chat_id, is_origin, is_explicit) ==
    [platform |-> platform, chat_id |-> chat_id, is_origin |-> is_origin,
     is_explicit |-> is_explicit]

\* Python truth value of an Optional[str]
Truthy(opt) == opt # None /\ opt[1] # <<>>

\* delivery.py lines 38-81: DeliveryTarget.parse(target, origin)
parse(target, org) ==
    LET t == lower(strip(target))
    IN IF t = <<"origin">>
         THEN IF org # None
                THEN DeliveryTarget(org[1].platform, Some(org[1].chat_id), TRUE, FALSE)
                ELSE DeliveryTarget(Platform_LOCAL, None, TRUE, FALSE)
         ELSE IF t = <<"local">>
         THEN DeliveryTarget(Platform_LOCAL, None, FALSE, FALSE)
         ELSE IF HasColon(t)
         THEN IF IsPlatform(split1(t)[1])
                THEN DeliveryTarget(split1(t)[1][1], Some(split1(t)[2]), FALSE, TRUE)
                ELSE DeliveryTarget(Platform_LOCAL, None, FALSE, FALSE)
         ELSE IF IsPlatform(t)
                THEN DeliveryTarget(t[1], None, FALSE, FALSE)
                ELSE DeliveryTarget(Platform_LOCAL, None, FALSE, FALSE)

\* delivery.py lines 83-91: DeliveryTarget.to_string()
to_string(t) ==
    IF t.is_origin THEN <<"origin">>
    ELSE IF t.platform = Platform_LOCAL THEN <<"local">>
    ELSE IF Truthy(t.chat_id) THEN <<t.platform, ":">> \o t.chat_id[1]
    ELSE <<t.platform>>

\* config.py lines 156-161: the chat id of the platform's home channel, or None
get_home_channel(platform) == home_channel[platform]

\* delivery.py line 148: the de-duplication key
TargetKey(t) == <<t.platform, t.chat_id>>

\* delivery.py lines 149-151: the target is appended unless its key was seen
AppendAlways(tgts, seen, t) == Append(tgts, t)
AppendUnseen(tgts, seen, t) == IF TargetKey(t) \in seen THEN tgts ELSE Append(tgts, t)

\* delivery.py lines 139-145: a target without chat id on a platform other than
\* local takes the chat id of the home channel; Resolved is None when the spec is skipped
ResolveHomeKeep(t) == Some(t)
ResolveHome(t) ==
    IF t.chat_id = None /\ t.platform # Platform_LOCAL
      THEN IF get_home_channel(t.platform) # None
             THEN Some([t EXCEPT !.chat_id = get_home_channel(t.platform)])
             ELSE None
      ELSE Some(t)

\* delivery.py lines 135-151: the loop over the deliver list
RECURSIVE ResolveLoop(_, _, _, _)
ResolveLoop(specs, org, tgts, seen) ==
    IF specs = <<>> THEN [targets |-> tgts, seen_platforms |-> seen]
    ELSE LET r == ResolveHome(parse(Head(specs), org))
         IN IF r = None
              THEN ResolveLoop(Tail(specs), org, tgts, seen)
              ELSE ResolveLoop(Tail(specs), org, AppendUnseen(tgts, seen, r[1]),
                               seen \cup {TargetKey(r[1])})

\* delivery.py lines 153-157: the local target is appended when always_log_local
\* and no target with key (LOCAL, None) was kept
AlwaysLocal(r) ==
    IF always_log_local /\ <<Platform_LOCAL, None>> \notin r.seen_platforms
      THEN Append(r.targets, DeliveryTarget(Platform_LOCAL, None, FALSE, FALSE))
      ELSE r.targets

\* delivery.py lines 114-159: DeliveryRouter.resolve_targets(deliver, origin)
resolve_targets(specs, org) == AlwaysLocal(ResolveLoop(specs, org, <<>>, {}))

\* ------------------------------------------- one routing request, step by step
\* the target strings a request may name
TargetSpecs ==
    { <<"origin">>, <<"local">>, <<"telegram">>, <<"discord">>, <<"slack">>,
      <<"telegram", ":", "c1">>, <<"discord", ":", "c2">>, <<"local", ":", "c1">>,
      <<"slack", ":", "c1">>, <<"telegram", ":">>, <<" ", "Telegram", ":", "C1">> }

SpecLists == UNION { [1..n -> TargetSpecs] : n \in 0..MaxSpecs }

\* origin: None or a SessionSource (platform, chat_id)
Origins == { None,
             Some([platform |-> "telegram", chat_id |-> <<"c1">>]),
             Some([platform |-> "discord", chat_id |-> <<"c1">>]) }

\* config.platforms: the home channel of each platform, if any
HomeConfigs ==
    { [p \in PlatformValues |-> CASE p = "telegram" -> tg [] p = "discord" -> dc [] OTHER -> None] :
        tg \in {None, Some(<<"c1">>)}, dc \in {None, Some(<<"c2">>)} }

\* what the delivery to one target did: the file was written, the adapter's send
\* returned a SendResult with success True or False, or an exception was raised
Raised == {"io_error", "no_adapter", "no_chat_id", "send_raised"}
Delivered == {"written", "sent"}

\* delivery.py lines 191-199: the entry stored for a target
Entry(did) == IF did \in Raised THEN [success |-> FALSE, error |-> did]
              ELSE [success |-> TRUE, result |-> did]

\* results[key] = entry
SetItem(dict, key, entry) ==
    [k \in DOMAIN dict \cup {key} |-> IF k = key THEN entry ELSE dict[k]]

RouterInit ==
    /\ SchedIdle
    /\ CronIdle
    /\ RestIdle
    /\ deliver \in SpecLists
    /\ origin \in Origins
    /\ home_channel \in HomeConfigs
    /\ always_log_local \in BOOLEAN
    /\ adapters \in SUBSET {"telegram", "discord"}
    /\ targets = <<>>
    /\ rpc = "resolve"
    /\ results = <<>>
    /\ attempts = <<>>
    /\ in_flight = <<>>

\* the caller resolves the deliver list of the request (lines 114-159) and
\* calls deliver() with the result (line 182)
CallResolve ==
    /\ rpc = "resolve"
    /\ targets' = resolve_targets(deliver, origin)
    /\ rpc' = "deliver"
    /\ UNCHANGED <<deliver, origin, home_channel, always_log_local, adapters, results, attempts, in_flight>>
    /\ UNCHANGED <<schedVars, cronVars, restVars>>

\* the target the for loop of deliver() is at (line 184)
Target == targets[Len(attempts) + 1]

\* line 195: `except Exception` catches what the delivery raises (ValueError,
\* OSError, an exception of the adapter)
ExceptValueError(did) == did \in {"no_adapter", "no_chat_id"}
ExceptException(did) == did \in Raised

\* lines 185-199: one iteration, in which the delivery did `did`
Iteration(did) ==
    /\ attempts' = Append(attempts, [target |-> Target, did |-> did])
    /\ in_flight' = None
    /\ IF did \in Raised /\ ~ExceptException(did)
         THEN /\ rpc' = "raised"
              /\ UNCHANGED results
         ELSE /\ results' = SetItem(results, to_string(Target), Entry(did))
              /\ UNCHANGED rpc
    /\ UNCHANGED <<deliver, origin, home_channel, always_log_local, adapters, targets>>
    /\ UNCHANGED <<schedVars, cronVars, restVars>>

\* lines 186-187 and 203-247: the file is written, or mkdir / write_text raises
DeliverLocal(did) ==
    /\ rpc = "deliver" /\ Len(attempts) < Len(targets)
    /\ Target.platform = Platform_LOCAL
    /\ did \in {"written", "io_error"}
    /\ Iteration(did)

\* lines 188-189 and 256-266: with an adapter and a chat id, deliver() awaits
\* adapter.send for the target the loop is at; the loop goes on when it is over
AwaitSend ==
    /\ rpc = "deliver" /\ Len(attempts) < Len(targets)
    /\ Target.platform # Platform_LOCAL
    /\ Target.platform \in adapters /\ Truthy(Target.chat_id)
    /\ in_flight = None
    /\ in_flight' = Some(Len(attempts) + 1)
    /\ UNCHANGED <<deliver, origin, home_channel, always_log_local, adapters, targets, rpc,
                   results, attempts>>
    /\ UNCHANGED <<schedVars, cronVars, restVars>>

\* lines 188-189 and 249-266: ValueError without adapter or chat id; otherwise
\* what the awaited adapter.send returns or raises
DeliverToPlatform(did) ==
    /\ rpc = "deliver" /\ Len(attempts) < Len(targets)
    /\ Target.platform # Platform_LOCAL
    /\ IF Target.platform \notin adapters THEN did = "no_adapter"
       ELSE IF ~Truthy(Target.chat_id) THEN did = "no_chat_id"
       ELSE in_flight # None /\ did \in {"sent", "send_failed", "send_raised"}
    /\ Iteration(did)

\* line 201
DeliverReturn ==
    /\ rpc = "deliver" /\ Len(attempts) = Len(targets)
    /\ rpc' = "done"
    /\ UNCHANGED <<deliver, origin, home_channel, always_log_local, adapters, targets,
                   results, attempts, in_flight>>
    /\ UNCHANGED <<schedVars, cronVars, restVars>>

RouterNext ==
    \/ CallResolve
    \/ AwaitSend
    \/ \E did \in {"written", "io_error"} : DeliverLocal(did)
    \/ \E did \in {"no_adapter", "no_chat_id", "sent", "send_failed", "send_raised"} :
           DeliverToPlatform(did)
    \/ DeliverReturn

RouterSpec == RouterInit /\ [][RouterNext]_vars

\* ------------------------------------------------------ claims on deliver()
\* C12: deliver() never raises and attempts every target of the list, in order,
\* whatever the other deliveries did; a target whose delivery raises gets a
\* failure entry carrying the error.
C12_EveryTargetAttempted ==
    /\ [](rpc # "raised")
    /\ [](rpc = "done" =>
            /\ Len(attempts) = Len(targets)
            /\ \A i \in 1..Len(targets) : attempts[i].target = targets[i])
    /\ [][Len(attempts') = Len(attempts) + 1 =>
            LET a == attempts'[Len(attempts')]
            IN a.did \in Raised =>
                 results'[to_string(a.target)] = [success |-> FALSE, error |-> a.did]]_vars

\* a delivery raised and a later target of the same call was delivered
C12_Witness ==
    /\ rpc = "done"
    /\ \E i, j \in 1..Len(attempts) :
          i < j /\ attempts[i].did \in Raised /\ attempts[j].did \in Delivered

\* C13: the entry deliver() stores for a target says success only if the
\* content was delivered to it; when the adapter's send returns a SendResult
\* with success False, the entry is a failure carrying the error.
C13_SuccessMeansDelivered ==
    attempts # <<>> /\ rpc # "raised" =>
        LET a == attempts[Len(attempts)]
            entry == results[to_string(a.target)]
        IN /\ entry.success => a.did \in Delivered
           /\ a.did = "send_failed" => ~entry.success

\* ------------------------------------------------ claims on resolve_targets
\* the spec is "origin", "local", or names a platform of the Platform enum
\* (bare or before the first colon)
NamesKnownPlatform(str) ==
    LET t == lower(strip(str))
    IN \/ t \in {<<"origin">>, <<"local">>}
       \/ HasColon(t) /\ IsPlatform(split1(t)[1])
       \/ ~HasColon(t) /\ IsPlatform(t)

UnknownSpecs == {i \in 1..Len(deliver) : ~NamesKnownPlatform(deliver[i])}

\* C14: a spec that names an unknown platform is delivered nowhere (the targets
\* are those of the request without it, so the other specs are unaffected) and
\* the result map reports a failure for it.
C14_UnknownPlatformIsFailure ==
    rpc = "done" /\ UnknownSpecs # {} =>
        /\ targets = resolve_targets(SelectSeq(deliver, NamesKnownPlatform), origin)
        /\ \E k \in DOMAIN results : ~results[k].success

\* resolve_targets has just returned the list targets
Returned == rpc = "deliver" /\ attempts = <<>>

\* what spec i of the request resolves to (None: the spec is dropped)
Res(i) == ResolveHome(parse(deliver[i], origin))

\* the specs that resolve to a target with the given key
SpecsOf(key) == {i \in 1..Len(deliver) : Res(i) # None /\ TargetKey(Res(i)[1]) = key}

\* the first of them
FirstOf(key) == CHOOSE i \in SpecsOf(key) : \A j \in SpecsOf(key) : i <= j

\* C15: resolve_targets returns no two targets with the same (platform, chat_id);
\* every spec that resolves is represented by the target of the first spec with
\* its key, and these targets are in spec order (a local target added by
\* always_log_local comes last).
C15_DedupFirstKept ==
    Returned =>
        /\ \A p, q \in 1..Len(targets) :
              p # q => TargetKey(targets[p]) # TargetKey(targets[q])
        /\ \A i \in 1..Len(deliver) :
              Res(i) # None => \E p \in 1..Len(targets) : TargetKey(targets[p]) = TargetKey(Res(i)[1])
        /\ \A p \in 1..Len(targets) :
              IF SpecsOf(TargetKey(targets[p])) # {}
                THEN targets[p] = Res(FirstOf(TargetKey(targets[p])))[1]
                ELSE always_log_local /\ p = Len(targets) /\ targets[p].platform = Platform_LOCAL
        /\ \A p, q \in 1..Len(targets) :
              /\ p < q
              /\ SpecsOf(TargetKey(targets[p])) # {}
              /\ SpecsOf(TargetKey(targets[q])) # {}
              => FirstOf(TargetKey(targets[p])) < FirstOf(TargetKey(targets[q]))

\* two specs of the request resolved to the same key with different targets
\* (one as origin, one explicitly): the list holds the target of the first one
C15_Witness ==
    /\ Returned
    /\ Len(deliver) = 2
    /\ Res(1) # None /\ Res(2) # None
    /\ TargetKey(Res(1)[1]) = TargetKey(Res(2)[1])
    /\ Res(1)[1] # Res(2)[1]
    /\ targets[1] = Res(1)[1]

\* the positions of the local targets in the resolved list
LocalTargets == {p \in 1..Len(targets) : targets[p].platform = Platform_LOCAL}

\* C16: with always_log_local the resolved list holds exactly one local target,
\* whatever the request; without it, a local target is present only if a spec
\* resolved to local.
C16_ExactlyOneLocal ==
    rpc # "resolve" =>
        IF always_log_local
          THEN Cardinality(LocalTargets) = 1
          ELSE LocalTargets # {} =>
                 \E i \in 1..Len(deliver) : parse(deliver[i], origin).platform = Platform_LOCAL

\* spec i of the request is a bare platform name other than local
BarePlatform(i) ==
    LET t == lower(strip(deliver[i]))
    IN ~HasColon(t) /\ IsPlatform(t) /\ t[1] # Platform_LOCAL

\* the platform it names
PlatformOf(i) == lower(strip(deliver[i]))[1]

\* C17: a bare platform spec resolves to the chat id of the platform's home
\* channel and is dropped when the platform has none; every resolved target on
\* a platform other than local has a chat_id (chat_id is None only on local).
C17_HomeChannelOrDropped ==
    Returned =>
        /\ \A p \in 1..Len(targets) :
              targets[p].platform # Platform_LOCAL => targets[p].chat_id # None
        /\ \A i \in 1..Len(deliver) :
              BarePlatform(i) =>
                 IF home_channel[PlatformOf(i)] # None
                   THEN \E p \in 1..Len(targets) :
                           /\ targets[p].platform = PlatformOf(i)
                           /\ targets[p].chat_id = home_channel[PlatformOf(i)]
                   ELSE ~\E p \in 1..Len(targets) :
                           /\ targets[p].platform = PlatformOf(i)
                           /\ ~targets[p].is_origin
                           /\ ~targets[p].is_explicit

\* a request with a bare platform that has a home channel and one that has none
C17_Witness ==
    /\ Returned
    /\ \E i, j \in 1..Len(deliver) :
          /\ BarePlatform(i) /\ home_channel[PlatformOf(i)] # None
          /\ BarePlatform(j) /\ home_channel[PlatformOf(j)] = None
          /\ \E p \in 1..Len(targets) : targets[p].platform = PlatformOf(i)

\* C18: parse(t.to_string(), origin) = t, in all four fields, for every
\* target parse returns for a spec of the request and every target
\* resolve_targets returns, with the origin of the request.
C18_ParseFormatRoundTrip ==
    rpc # "resolve" =>
        /\ \A i \in 1..Len(deliver) :
              parse(to_string(parse(deliver[i], origin)), origin) = parse(deliver[i], origin)
        /\ \A p \in 1..Len(targets) :
              parse(to_string(targets[p]), origin) = targets[p]

\* ----------------------------------------- cron tick (src/cron/scheduler.py)
MaxJobs == 2            \* number of jobs that can be due in one tick

JobIds == 1..MaxJobs

\* the lists get_due_jobs() can return: distinct jobs, in any order
JobLists == { l \in UNION { [1..n -> JobIds] : n \in 0..MaxJobs } :
                \A i, j \in 1..Len(l) : i # j => l[i] # l[j] }

\* the job the for loop is at (line 127)
Job == due_jobs[job_i]

\* a call tick() made for the current job, and whether the call raised
Call(op, success, error, raised) ==
    [op |-> op, job |-> Job, success |-> success, error |-> error, raised |-> raised]

\* line 127: the loop goes to the next job, or tick returns (line 144)
NextJob ==
    /\ job_i' = job_i + 1
    /\ cpc' = IF job_i = Len(due_jobs) THEN "done" ELSE "run"

CronInit ==
    /\ SchedIdle
    /\ RouterIdle
    /\ RestIdle
    /\ due_jobs = <<>>
    /\ cpc = "tick"
    /\ job_i = 0
    /\ run_result = <<>>
    /\ executed = 0
    /\ calls = <<>>

\* lines 117-126: the due jobs are read; tick returns 0 when there is none
get_due_jobs(jobs) ==
    /\ cpc = "tick"
    /\ due_jobs' = jobs
    /\ job_i' = 1
    /\ cpc' = IF jobs = <<>> THEN "done" ELSE "run"
    /\ UNCHANGED <<run_result, executed, calls>>
    /\ UNCHANGED <<schedVars, routerVars, restVars>>

\* line 129 and lines 26-101: run_job returns (True, output, None) or
\* (False, output, error_msg); it raises when the import or a job field fails
\* before its own try block
run_job(o) ==
    /\ cpc = "run"
    /\ CASE o = "success" ->
              /\ run_result' = [success |-> TRUE, error |-> "none"]
              /\ calls' = Append(calls, Call("run_job", TRUE, "none", FALSE))
              /\ cpc' = "save"
         [] o = "failure" ->
              /\ run_result' = [success |-> FALSE, error |-> "error_msg"]
              /\ calls' = Append(calls, Call("run_job", FALSE, "error_msg", FALSE))
              /\ cpc' = "save"
         [] o = "raise" ->
              /\ run_result' = [success |-> FALSE, error |-> "exception"]
              /\ calls' = Append(calls, Call("run_job", FALSE, "exception", TRUE))
              /\ cpc' = "except"
    /\ UNCHANGED <<due_jobs, job_i, executed>>
    /\ UNCHANGED <<schedVars, routerVars, restVars>>

\* line 132: the output is written, or the write raises
save_job_output(raises) ==
    /\ cpc = "save"
    /\ calls' = Append(calls, Call("save_job_output", run_result.success, run_result.error, raises))
    /\ cpc' = IF raises THEN "except" ELSE "mark"
    /\ UNCHANGED <<due_jobs, job_i, run_result, executed>>
    /\ UNCHANGED <<schedVars, routerVars, restVars>>

\* lines 137-138: mark_job_run(job["id"], success, error), then executed += 1
mark_job_run(raises) ==
    /\ cpc = "mark"
    /\ calls' = Append(calls, Call("mark_job_run", run_result.success, run_result.error, raises))
    /\ IF raises
         THEN /\ cpc' = "except"
              /\ UNCHANGED <<job_i, executed>>
         ELSE /\ executed' = executed + 1
              /\ NextJob
    /\ UNCHANGED <<due_jobs, run_result>>
    /\ UNCHANGED <<schedVars, routerVars, restVars>>

\* lines 140-142: the except block logs and calls mark_job_run(job["id"], False,
\* str(e)); an exception of this call leaves the loop and tick
except_mark_job_run(raises) ==
    /\ cpc = "except"
    /\ calls' = Append(calls, Call("mark_job_run", FALSE, "exception", raises))
    /\ IF raises
         THEN /\ cpc' = "raised"
              /\ UNCHANGED job_i
         ELSE NextJob
    /\ UNCHANGED <<due_jobs, run_result, executed>>
    /\ UNCHANGED <<schedVars, routerVars, restVars>>

CronNext ==
    \/ \E jobs \in JobLists : get_due_jobs(jobs)
    \/ \E o \in {"success", "failure", "raise"} : run_job(o)
    \/ \E raises \in BOOLEAN : save_job_output(raises)
    \/ \E raises \in BOOLEAN : mark_job_run(raises)
    \/ \E raises \in BOOLEAN : except_mark_job_run(raises)

CronSpec == CronInit /\ [][CronNext]_vars

\* the calls of the tick for job j with the given name, by position in the history
CallsOf(op, j) == {i \in 1..Len(calls) : calls[i].op = op /\ calls[i].job = j}

\* the jobs of the tick
DueJobs == {due_jobs[i] : i \in 1..Len(due_jobs)}

\* C19: an error raised while one due job is processed (run, output saved, job
\* marked) does not keep the remaining due jobs from being run: when tick() is
\* over, by return or by exception, every due job has been run.
C19_ErrorsContained ==
    cpc \in {"done", "raised"} => \A j \in DueJobs : CallsOf("run_job", j) # {}

\* C20: when tick() has returned, every due job was run exactly once and
\* mark_job_run was invoked exactly once for it, with the success flag and
\* error of the run; the output run_job returned was saved before the job was marked.
C20_RunSaveMarkOnce ==
    cpc = "done" =>
        \A j \in DueJobs :
            /\ Cardinality(CallsOf("run_job", j)) = 1
            /\ Cardinality(CallsOf("mark_job_run", j)) = 1
            /\ \A m \in CallsOf("mark_job_run", j) :
                  /\ \E r \in CallsOf("run_job", j) :
                        /\ r < m
                        /\ calls[m].success = calls[r].success
                        /\ calls[m].error = calls[r].error
                  /\ \A r \in CallsOf("run_job", j) :
                        ~calls[r].raised =>
                            \E sv \in CallsOf("save_job_output", j) : sv < m /\ ~calls[sv].raised


\* C21: every job tick() marks run had its output routed through
\* DeliveryRouter.deliver before the mark_job_run call.
C21_DeliveredBeforeMarked ==
    \A m \in 1..Len(calls) :
        calls[m].op = "mark_job_run" =>
            \E d \in CallsOf("deliver", calls[m].job) : d < m


\* ------------------------------------ gateway configuration (config.py)
\* a Python dict with keys among keys and values among vals
Dicts(keys, vals) == UNION { [D -> vals] : D \in SUBSET keys }

\* config.py lines 54-82: SessionResetPolicy
SessionResetPolicy(mode, at_hour, idle_minutes) ==
    [mode |-> mode, at_hour |-> at_hour, idle_minutes |-> idle_minutes]

\* config.py lines 65-67: the defaults of the dataclass
DefaultPolicy == SessionResetPolicy("both", 4, 120)

\* the policies a configuration may hold as default or override
ResetPolicies == { SessionResetPolicy(m, 4, 120) : m \in {"daily", "idle", "both"} }

\* config.py lines 130-146: GatewayConfig (the fields the model reads)
GatewayConfig(platforms, default_reset_policy, reset_by_type, reset_by_platform) ==
    [platforms |-> platforms, default_reset_policy |-> default_reset_policy,
     reset_by_type |-> reset_by_type, reset_by_platform |-> reset_by_platform]

\* the session types and platforms a caller asks about (None: argument omitted)
SessionTypes == {"dm", "group", "thread"}
PolicyQueries == [platform : {None} \cup {Some(p) : p \in PlatformValues},
                  session_type : {None} \cup {Some(t) : t \in SessionTypes}]

\* config.py lines 163-181: GatewayConfig.get_reset_policy
reset_policy_type_first(cfg, platform, session_type) ==
    IF session_type # None /\ session_type[1] \in DOMAIN cfg.reset_by_type
      THEN cfg.reset_by_type[session_type[1]]
    ELSE IF platform # None /\ platform[1] \in DOMAIN cfg.reset_by_platform
      THEN cfg.reset_by_platform[platform[1]]
    ELSE cfg.default_reset_policy
reset_policy(cfg, platform, session_type) ==
    IF platform # None /\ platform[1] \in DOMAIN cfg.reset_by_platform
      THEN cfg.reset_by_platform[platform[1]]
    ELSE IF session_type # None /\ session_type[1] \in DOMAIN cfg.reset_by_type
      THEN cfg.reset_by_type[session_type[1]]
    ELSE cfg.default_reset_policy

\* a configuration with any overrides for two platforms and two session types
ConfigInit ==
    /\ notCfgIdle
    /\ file = None
    /\ env = <<>>
    /\ \E d \in ResetPolicies,
          bt \in Dicts({"dm", "group"}, ResetPolicies),
          bp \in Dicts({"telegram", "discord"}, ResetPolicies) :
          config = Some(GatewayConfig(<<>>, d, bt, bp))
    /\ query = None
    /\ policy = None

\* a caller asks for the policy of a session
get_reset_policy(q) ==
    /\ config # None
    /\ query' = Some(q)
    /\ policy' = Some(reset_policy(config[1], q.platform, q.session_type))
    /\ UNCHANGED <<file, env, config>>
    /\ UNCHANGED notCfg

ConfigNext == \E q \in PolicyQueries : get_reset_policy(q)

ConfigSpec == ConfigInit /\ [][ConfigNext]_vars

\* the configuration has an override for the platform / the session type asked about
HasPlatformOverride ==
    query[1].platform # None /\ query[1].platform[1] \in DOMAIN config[1].reset_by_platform
HasTypeOverride ==
    query[1].session_type # None /\ query[1].session_type[1] \in DOMAIN config[1].reset_by_type

\* C22: get_reset_policy returns the platform override if the platform has one,
\* otherwise the override of the session type if it has one, otherwise the default.
C22_ResetPolicyPriority ==
    query # None =>
        /\ HasPlatformOverride =>
              policy = Some(config[1].reset_by_platform[query[1].platform[1]])
        /\ ~HasPlatformOverride /\ HasTypeOverride =>
              policy = Some(config[1].reset_by_type[query[1].session_type[1]])
        /\ ~HasPlatformOverride /\ ~HasTypeOverride =>
              policy = Some(config[1].default_reset_policy)

\* both overrides exist and differ from each other and from the default
C22_Witness ==
    /\ query # None
    /\ HasPlatformOverride /\ HasTypeOverride
    /\ config[1].reset_by_platform[query[1].platform[1]]
          # config[1].reset_by_type[query[1].session_type[1]]
    /\ config[1].reset_by_platform[query[1].platform[1]] # config[1].default_reset_policy
    /\ policy = Some(config[1].reset_by_platform[query[1].platform[1]])

\* --------------------------------------------------- load_gateway_config
\* config.py lines 85-91: PlatformConfig (enabled, token, home channel chat id)
PlatformConfig(enabled, token, home) == [enabled |-> enabled, token |-> token, home_channel |-> home]

\* what gateway.json may say about one platform (PlatformConfig.from_dict, lines 109-121)
FilePlatformConfigs ==
    { PlatformConfig(e, Some("file_token"), h) : e \in BOOLEAN, h \in {None, Some("file_home")} }

\* the content of gateway.json after GatewayConfig.from_dict (lines 200-238), or
\* None when the file is missing or cannot be read (lines 255-261)
Files ==
    {None} \cup
    { Some(GatewayConfig(p, d, <<>>, <<>>)) :
        p \in Dicts({"telegram", "discord", "whatsapp"}, FilePlatformConfigs),
        d \in {DefaultPolicy, SessionResetPolicy("both", 5, 60)} }

\* the recognised environment variables and the values they may be set to
EnvValues(name) ==
    CASE name = "WHATSAPP_ENABLED" -> {"true", "false"}
      [] name \in {"SESSION_IDLE_MINUTES", "SESSION_RESET_HOUR"} -> {"30", "abc"}
      [] name \in {"TELEGRAM_BOT_TOKEN", "DISCORD_BOT_TOKEN"} -> {"env_token"}
      [] OTHER -> {"env_home"}
EnvNames == {"TELEGRAM_BOT_TOKEN", "TELEGRAM_HOME_CHANNEL", "DISCORD_BOT_TOKEN",
             "DISCORD_HOME_CHANNEL", "WHATSAPP_ENABLED", "SESSION_IDLE_MINUTES",
             "SESSION_RESET_HOUR"}
Environments ==
    { e \in [EnvNames -> {None} \cup {Some(v) : v \in {"true", "false", "30", "abc", "env_token", "env_home"}}] :
        \A n \in EnvNames : e[n] # None => e[n][1] \in EnvValues(n) }

\* int(value): the number, or None for the ValueError
int(str) == CASE str = "30" -> Some(30)
              [] OTHER -> None

\* os.getenv(name) is set and not empty
Getenv(e, name) == e[name]

\* lines 273-278 and 289-294: the token variable creates the platform entry if
\* missing, enables it and sets its token
ApplyToken(platforms, p, tok) ==
    IF tok = None THEN platforms
    ELSE LET base == IF p \in DOMAIN platforms THEN platforms[p]
                     ELSE PlatformConfig(FALSE, None, None)
         IN SetItem(platforms, p, [base EXCEPT !.enabled = TRUE, !.token = tok])

\* lines 280-286 and 296-302: the home channel variable is applied when the
\* platform has an entry
ApplyHome(platforms, p, home) ==
    IF home # None /\ p \in DOMAIN platforms
      THEN SetItem(platforms, p, [platforms[p] EXCEPT !.home_channel = home])
      ELSE platforms

\* lines 304-309: WHATSAPP_ENABLED in ("true", "1", "yes") enables the platform
ApplyWhatsapp(platforms, val) ==
    IF val # None /\ val[1] \in {"true", "1", "yes"}
      THEN LET base == IF "whatsapp" \in DOMAIN platforms THEN platforms["whatsapp"]
                       ELSE PlatformConfig(FALSE, None, None)
           IN SetItem(platforms, "whatsapp", [base EXCEPT !.enabled = TRUE])
      ELSE platforms

\* lines 311-325: the two session variables, ignored when int() raises
ApplySession(pol, idle, hour) ==
    LET p1 == IF idle # None /\ int(idle[1]) # None
                THEN [pol EXCEPT !.idle_minutes = int(idle[1])[1]] ELSE pol
    IN IF hour # None /\ int(hour[1]) # None
         THEN [p1 EXCEPT !.at_hour = int(hour[1])[1]] ELSE p1

\* lines 269-325: _apply_env_overrides(config)
apply_env_overrides(cfg, e) ==
    LET p1 == ApplyToken(cfg.platforms, "telegram", Getenv(e, "TELEGRAM_BOT_TOKEN"))
        p2 == ApplyHome(p1, "telegram", Getenv(e, "TELEGRAM_HOME_CHANNEL"))
        p3 == ApplyToken(p2, "discord", Getenv(e, "DISCORD_BOT_TOKEN"))
        p4 == ApplyHome(p3, "discord", Getenv(e, "DISCORD_HOME_CHANNEL"))
        p5 == ApplyWhatsapp(p4, Getenv(e, "WHATSAPP_ENABLED"))
    IN [cfg EXCEPT !.platforms = p5,
                   !.default_reset_policy =
                       ApplySession(@, Getenv(e, "SESSION_IDLE_MINUTES"),
                                       Getenv(e, "SESSION_RESET_HOUR"))]

\* lines 241-266: defaults, replaced by the file when it loads, then the environment
LoadInit ==
    /\ notCfgIdle
    /\ file \in Files
    /\ env \in Environments
    /\ config = None
    /\ query = None
    /\ policy = None

load_gateway_config ==
    /\ config = None
    /\ config' = Some(apply_env_overrides(
                        IF file # None THEN file[1]
                        ELSE GatewayConfig(<<>>, DefaultPolicy, <<>>, <<>>), env))
    /\ UNCHANGED <<file, env, query, policy>>
    /\ UNCHANGED notCfg

LoadNext == load_gateway_config

LoadSpec == LoadInit /\ [][LoadNext]_vars

\* the loaded configuration has the platform, with the given home channel
HomeIs(p, home) ==
    p \in DOMAIN config[1].platforms /\ config[1].platforms[p].home_channel = home

\* C23: every recognised variable set to a valid value decides its setting in
\* the loaded configuration, whatever gateway.json holds.
C23_EnvironmentWins ==
    config # None =>
        /\ \A p \in {"telegram", "discord"} :
              LET tok == env[IF p = "telegram" THEN "TELEGRAM_BOT_TOKEN" ELSE "DISCORD_BOT_TOKEN"]
                  home == env[IF p = "telegram" THEN "TELEGRAM_HOME_CHANNEL"
                              ELSE "DISCORD_HOME_CHANNEL"]
              IN /\ tok # None =>
                      /\ p \in DOMAIN config[1].platforms
                      /\ config[1].platforms[p].token = tok
                      /\ config[1].platforms[p].enabled
                 /\ home # None => HomeIs(p, home)
        /\ env["WHATSAPP_ENABLED"] = Some("true") =>
              "whatsapp" \in DOMAIN config[1].platforms /\ config[1].platforms["whatsapp"].enabled
        /\ env["WHATSAPP_ENABLED"] = Some("false") =>
              ~("whatsapp" \in DOMAIN config[1].platforms /\ config[1].platforms["whatsapp"].enabled)
        /\ env["SESSION_IDLE_MINUTES"] = Some("30") =>
              config[1].default_reset_policy.idle_minutes = 30
        /\ env["SESSION_RESET_HOUR"] = Some("30") =>
              config[1].default_reset_policy.at_hour = 30

\* ------------------------------------------- truncate_message (base.py)
MaxContent == 5         \* length of the content given to truncate_message
MaxLimit == 3           \* the largest max_length argument

\* the characters of the content
Chars == {"a", "b", " ", "\n"}
Contents == UNION { [1..n -> Chars] : n \in 0..MaxContent }

\* str.rfind(ch, 0, end): the last index (from 0) below end that holds ch, or -1
find(str, ch, end) ==
    LET S == {i \in 0..(end - 1) : i < Len(str) /\ str[i + 1] = ch}
    IN IF S = {} THEN -1 ELSE CHOOSE i \in S : \A j \in S : i <= j
rfind(str, ch, end) ==
    LET S == {i \in 0..(end - 1) : i < Len(str) /\ str[i + 1] = ch}
    IN IF S = {} THEN -1 ELSE CHOOSE i \in S : \A j \in S : j <= i

\* lines 439-441: without newline and space the content is cut at max_length
HardSplitOver(L) == L + 1
HardSplit(L) == L

\* lines 434-441: newline, else space, else hard cut
SplitIdxSpaceFirst(str, L) ==
    IF rfind(str, " ", L) # -1 THEN rfind(str, " ", L)
    ELSE IF rfind(str, "\n", L) # -1 THEN rfind(str, "\n", L)
    ELSE HardSplit(L)
SplitIdx(str, L) ==
    IF rfind(str, "\n", L) # -1 THEN rfind(str, "\n", L)
    ELSE IF rfind(str, " ", L) # -1 THEN rfind(str, " ", L)
    ELSE HardSplit(L)

\* line 444: content = content[split_idx:].lstrip()
RemainderSkip(str, idx) == lstrip(SubSeq(str, idx + 2, Len(str)))
Remainder(str, idx) == lstrip(SubSeq(str, idx + 1, Len(str)))

\* lines 428-444: the while loop
RECURSIVE TruncateLoop(_, _, _)
TruncateLoop(str, L, acc) ==
    IF str = <<>> THEN acc
    ELSE IF Len(str) <= L THEN Append(acc, str)
    ELSE TruncateLoop(Remainder(str, SplitIdx(str, L)), L,
                      Append(acc, SubSeq(str, 1, SplitIdx(str, L))))

\* lines 414-446: truncate_message(content, max_length)
truncate_message(str, L) ==
    IF Len(str) <= L THEN <<str>> ELSE TruncateLoop(str, L, <<>>)

SplitInit ==
    /\ notSplitIdle
    /\ content \in Contents
    /\ max_length \in 1..MaxLimit
    /\ chunks = None
    /\ sent = <<>>
    /\ send_result = None

\* an adapter's send calls truncate_message (telegram.py line 139, discord.py line 149)
Truncate ==
    /\ chunks = None
    /\ chunks' = Some(truncate_message(content, max_length))
    /\ UNCHANGED <<content, max_length, sent, send_result>>
    /\ UNCHANGED notSplit

\* telegram.py lines 144-162, discord.py lines 161-166: one iteration of the
\* chunk loop; the platform call returns, or raises and send returns a failure
\* (telegram.py lines 170-171)
SendChunk(o) ==
    /\ chunks # None /\ send_result = None
    /\ Len(sent) < Len(chunks[1])
    /\ sent' = Append(sent, chunks[1][Len(sent) + 1])
    /\ send_result' = IF o = "raise" THEN Some(FALSE) ELSE None
    /\ UNCHANGED <<content, max_length, chunks>>
    /\ UNCHANGED notSplit

\* telegram.py lines 164-168: after the last chunk send returns success
SendReturn ==
    /\ chunks # None /\ send_result = None
    /\ Len(sent) = Len(chunks[1])
    /\ send_result' = Some(TRUE)
    /\ UNCHANGED <<content, max_length, chunks, sent>>
    /\ UNCHANGED notSplit

SplitNext ==
    \/ Truncate
    \/ \E o \in {"ok", "raise"} : SendChunk(o)
    \/ SendReturn

SplitSpec == SplitInit /\ [][SplitNext]_vars

\* C24: every chunk truncate_message returns is at most max_length long.
C24_ChunksWithinLimit ==
    chunks # None => \A i \in 1..Len(chunks[1]) : Len(chunks[1][i]) <= max_length

\* a content was cut into three chunks, the first by a hard cut
C24_Witness ==
    /\ chunks # None
    /\ Len(chunks[1]) >= 3
    /\ Len(chunks[1][1]) = max_length
    /\ \A i \in 1..Len(content) : content[i] \notin Whitespace

\* the content is max_length + 1 long and has a newline among its first max_length characters
OneOverWithNewline ==
    Len(content) = max_length + 1 /\ \E i \in 1..max_length : content[i] = "\n"

\* the last newline among the first max_length characters (position from 1)
LastNewline ==
    CHOOSE i \in 1..max_length :
        content[i] = "\n" /\ \A j \in (i + 1)..max_length : content[j] # "\n"

AllWhitespace(str) == \A i \in 1..Len(str) : str[i] \in Whitespace

\* C25 as stated: a content of length max_length is one chunk; a content of
\* length max_length + 1 with a newline at a position <= max_length gives
\* exactly two chunks, split at the last such newline.
C25_BoundaryTwoChunks ==
    chunks # None =>
        /\ Len(content) = max_length => chunks[1] = <<content>>
        /\ OneOverWithNewline =>
              /\ Len(chunks[1]) = 2
              /\ chunks[1][1] = SubSeq(content, 1, LastNewline - 1)

\* C25 amended: a content of length max_length is one chunk; a content of
\* length max_length + 1 with a newline at a position <= max_length is split
\* once, at the last such newline: the first chunk is what precedes it, and the
\* second chunk is what follows it without its leading whitespace, unless
\* nothing but whitespace follows, in which case there is no second chunk.
C25_BoundaryOneSplit ==
    chunks # None =>
        /\ Len(content) = max_length => chunks[1] = <<content>>
        /\ OneOverWithNewline =>
              LET rest == SubSeq(content, LastNewline + 1, Len(content))
              IN /\ chunks[1][1] = SubSeq(content, 1, LastNewline - 1)
                 /\ IF AllWhitespace(rest)
                      THEN Len(chunks[1]) = 1
                      ELSE /\ Len(chunks[1]) = 2
                           /\ chunks[1][2] = lstrip(rest)

\* a content one over the limit with two newlines before the limit was split at the second
C25_Witness ==
    /\ chunks # None
    /\ OneOverWithNewline
    /\ \E i \in 1..(LastNewline - 1) : content[i] = "\n"
    /\ Len(chunks[1]) = 2
    /\ chunks[1][1] = SubSeq(content, 1, LastNewline - 1)


\* the chunks joined in order
RECURSIVE Concat(_)
Concat(cs) == IF cs = <<>> THEN <<>> ELSE Head(cs) \o Concat(Tail(cs))

\* the characters of str that are not whitespace, in order
NonWhitespace(str) == SelectSeq(str, LAMBDA ch : ch \notin Whitespace)

\* str is the chunks cs in order, each followed by whitespace only
RECURSIVE Decomposes(_, _)
Decomposes(str, cs) ==
    IF cs = <<>> THEN AllWhitespace(str)
    ELSE LET c == Head(cs)
         IN /\ Len(c) <= Len(str)
            /\ SubSeq(str, 1, Len(c)) = c
            /\ \E k \in 0..(Len(str) - Len(c)) :
                  /\ AllWhitespace(SubSeq(str, Len(c) + 1, Len(c) + k))
                  /\ Decomposes(SubSeq(str, Len(c) + k + 1, Len(str)), Tail(cs))

\* C26: the chunks of truncate_message, joined in order, are the content up to
\* whitespace dropped where a chunk ends: every chunk is a verbatim piece of
\* the content, only whitespace lies between two pieces or after the last, and
\* the characters that are not whitespace are the same, in the same order.
C26_RoundTrip ==
    chunks # None =>
        /\ Decomposes(content, chunks[1])
        /\ NonWhitespace(Concat(chunks[1])) = NonWhitespace(content)

\* a content was split with whitespace dropped between two chunks while the
\* whitespace inside a chunk was kept
C26_Witness ==
    /\ chunks # None
    /\ Len(chunks[1]) >= 2
    /\ Len(Concat(chunks[1])) < Len(content)
    /\ \E i \in 1..Len(chunks[1]) : \E j \in 1..Len(chunks[1][i]) :
          chunks[1][i][j] \in Whitespace

\* ------------------------------------------- extract_images (base.py)
MaxSegments == 4        \* pieces (text characters and image tags) of one response

\* A response is a string of lexemes: the characters "a", " " and "\n", and
\* the character groups the two image syntaxes are written with:
\*   "![" "](" ")"  "<img src=" ">" "</img>"  "http://" "x" ".png"
\* the two syntaxes, as the agent writes them
MdTag(alt, url) == <<"![">> \o alt \o <<"](">> \o url \o <<")">>
HtmlTag(url, close) == <<"<img src=">> \o url \o <<">">> \o close

\* the pieces a response is written from: a character, or a tag in one of the
\* two syntaxes, with the URL of an image (.png) or of a page, with or without
\* alt text, with or without </img>
Segments ==
    LET Urls == {<<"http://", "x", ".png">>, <<"http://", "x">>}
    IN {[kind |-> "text", url |-> <<>>, alt |-> <<>>, str |-> <<c>>] : c \in {"a", " ", "\n"}}
       \cup {[kind |-> "md", url |-> u, alt |-> a, str |-> MdTag(a, u)] :
                u \in Urls, a \in {<<>>, <<"a">>}}
       \cup {[kind |-> "html", url |-> u, alt |-> <<>>, str |-> HtmlTag(u, c)] :
                u \in Urls, c \in {<<>>, <<"</img>">>}}
SegmentSeqs == UNION { [1..n -> Segments] : n \in 0..MaxSegments }

\* the response text: the pieces written one after the other
RECURSIVE Flatten(_)
Flatten(segs) == IF segs = <<>> THEN <<>> ELSE Head(segs).str \o Flatten(Tail(segs))

\* greedy repetition of a negated character class: the last position of the
\* longest run, starting at i, of lexemes that hold no character of the class,
\* stop being the lexemes that hold one (i - 1: no run)
RunEnd(str, i, stop) ==
    LET bad == {j \in i..Len(str) : str[j] \in stop}
    IN IF bad = {} THEN Len(str) ELSE (CHOOSE j \in bad : \A k \in bad : j <= k) - 1

\* \s*: the last position of the longest run of whitespace starting at i
SpaceEnd(str, i) ==
    LET bad == {j \in i..Len(str) : str[j] \notin {" ", "\n"}}
    IN IF bad = {} THEN Len(str) ELSE (CHOOSE j \in bad : \A k \in bad : j <= k) - 1

\* line 219: md_pattern = !\[([^\]]*)\]\((https?://[^\s\)]+)\) matched at position i
md_match(str, i) ==
    IF str[i] # "![" THEN None
    ELSE LET b == RunEnd(str, i + 1, {"]("}) + 1                       \* [^\]]*
         IN IF b + 1 > Len(str) \/ str[b + 1] # "http://" THEN None
            ELSE LET e == RunEnd(str, b + 2, {" ", "\n", "<img src=", ")"})   \* [^\s\)]+
                 IN IF e < b + 2 \/ e + 1 > Len(str) \/ str[e + 1] # ")" THEN None
                    ELSE Some([end |-> e + 1,
                               url |-> SubSeq(str, b + 1, e),
                               alt |-> SubSeq(str, i + 1, b - 1)])

\* line 229: html_pattern = <img\s+src=["']?(https?://[^\s"'<>]+)["']?\s*/?>\s*(?:</img>)?
\* matched at position i; the match takes the whitespace that follows the tag
html_match(str, i) ==
    IF str[i] # "<img src=" THEN None
    ELSE IF i + 1 > Len(str) \/ str[i + 1] # "http://" THEN None
    ELSE LET e == RunEnd(str, i + 2, {" ", "\n", "<img src=", ">", "</img>"})   \* [^\s"'<>]+
             w == SpaceEnd(str, e + 1)
         IN IF e < i + 2 \/ w + 1 > Len(str) \/ str[w + 1] # ">" THEN None
            ELSE LET t == SpaceEnd(str, w + 2)
                 IN Some([end |-> IF t + 1 <= Len(str) /\ str[t + 1] = "</img>"
                                    THEN t + 1 ELSE t,
                          url |-> SubSeq(str, i + 1, e),
                          alt |-> <<>>])

match(pattern, str, i) ==
    IF pattern = "md" THEN md_match(str, i) ELSE html_match(str, i)

\* re.finditer(pattern, content): the matches from left to right, not overlapping
RECURSIVE finditer(_, _, _)
finditer(pattern, str, i) ==
    IF i > Len(str) THEN <<>>
    ELSE LET m == match(pattern, str, i)
         IN IF m = None THEN finditer(pattern, str, i + 1)
            ELSE <<m[1]>> \o finditer(pattern, str, m[1].end + 1)

\* re.sub(pattern, '', cleaned): the text without the matches
RECURSIVE sub(_, _, _)
sub(pattern, str, i) ==
    IF i > Len(str) THEN <<>>
    ELSE LET m == match(pattern, str, i)
         IN IF m = None THEN <<str[i]>> \o sub(pattern, str, i + 1)
            ELSE sub(pattern, str, m[1].end + 1)

\* line 239: re.sub(r'\n{3,}', '\n\n', cleaned): a newline after two newlines is dropped
RECURSIVE collapse(_, _)
collapse(str, i) ==
    IF i > Len(str) THEN <<>>
    ELSE (IF i >= 3 /\ str[i] = "\n" /\ str[i - 1] = "\n" /\ str[i - 2] = "\n"
            THEN <<>> ELSE <<str[i]>>) \o collapse(str, i + 1)

\* lines 224-225: the URL ends with or holds an image extension or image host
looks_like_image(url) == \E k \in 1..Len(url) : url[k] = ".png"

\* the (url, alt_text) pairs of a list of matches
Pairs(ms) == [k \in 1..Len(ms) |-> <<ms[k].url, ms[k].alt>>]

\* lines 199-241: extract_images(content)
extract_images(str) ==
    LET md == SelectSeq(finditer("md", str, 1), LAMBDA m : looks_like_image(m.url))
        html == finditer("html", str, 1)
        imgs == Pairs(md) \o Pairs(html)
    IN [images |-> imgs,
        cleaned |-> IF imgs # <<>>
                      THEN strip(collapse(sub("html", sub("md", str, 1), 1), 1))
                      ELSE str]

ExtractInit ==
    /\ notImgIdle
    /\ segments \in SegmentSeqs
    /\ response_text = Flatten(segments)
    /\ images = <<>>
    /\ cleaned = <<>>
    /\ ipc = "extract"
    /\ text_sent = None
    /\ image_sends = <<>>
    /\ image_errors = 0

\* lines 296-298: if response: images, text_content = extract_images(response)
Extract ==
    /\ ipc = "extract"
    /\ IF response_text = <<>>
         THEN /\ ipc' = "done"
              /\ UNCHANGED <<images, cleaned>>
         ELSE /\ images' = extract_images(response_text).images
              /\ cleaned' = extract_images(response_text).cleaned
              /\ ipc' = "text"
    /\ UNCHANGED <<segments, response_text, text_sent, image_sends, image_errors>>
    /\ UNCHANGED notImg

\* lines 300-318: the text portion is sent first, when any remains
SendText ==
    /\ ipc = "text"
    /\ text_sent' = IF cleaned # <<>> THEN Some(cleaned) ELSE None
    /\ ipc' = IF images = <<>> THEN "done" ELSE "images"
    /\ UNCHANGED <<segments, response_text, images, cleaned, image_sends, image_errors>>
    /\ UNCHANGED notImg

\* lines 321-331: one turn of the loop over images; send_image returns
\* success ("ok"), returns a failure or raises: a failed result and an
\* exception are printed and the loop goes on
SendImage(o) ==
    /\ ipc = "images"
    /\ LET k == Len(image_sends) + 1
       IN /\ image_sends' = Append(image_sends,
                 <<images[k][1], IF images[k][2] # <<>> THEN Some(images[k][2]) ELSE None>>)
          /\ ipc' = IF k = Len(images) THEN "done" ELSE "images"
    /\ image_errors' = IF o = "ok" THEN image_errors ELSE image_errors + 1
    /\ UNCHANGED <<segments, response_text, images, cleaned, text_sent>>
    /\ UNCHANGED notImg

ExtractNext ==
    \/ Extract
    \/ SendText
    \/ \E o \in {"ok", "failed", "raised"} : SendImage(o)

ExtractSpec == ExtractInit /\ [][ExtractNext]_vars

\* extract_images has returned for this response
Extracted == ipc \in {"text", "images", "done"} /\ response_text # <<>>

\* the (url, alt) pairs of the image tags of the response, in the order of the text
RECURSIVE TagsOf(_)
TagsOf(segs) ==
    IF segs = <<>> THEN <<>>
    ELSE (IF Head(segs).kind = "text" THEN <<>> ELSE <<<<Head(segs).url, Head(segs).alt>>>>)
         \o TagsOf(Tail(segs))

\* the text of the response without its image tags
RECURSIVE TextOf(_)
TextOf(segs) ==
    IF segs = <<>> THEN <<>>
    ELSE (IF Head(segs).kind = "text" THEN Head(segs).str ELSE <<>>) \o TextOf(Tail(segs))

\* the tags extract_images takes for images: a markdown tag with the URL of
\* an image, and every HTML tag
Extractable(seg) ==
    seg.kind = "html" \/ (seg.kind = "md" /\ looks_like_image(seg.url))

\* the images of the response, in the order their tags have in the text
InSourceOrder ==
    TagsOf(SelectSeq(segments, Extractable))

\* C27: extract_images returns the images in the order of their tags in the
\* response text, whichever syntax each is written in, and the worker calls
\* send_image for them in that order.
C27_SourceOrder ==
    Extracted =>
        /\ images = InSourceOrder
        /\ \A k \in 1..Len(image_sends) : image_sends[k][1] = InSourceOrder[k][1]

\* every image tag of the response has the URL of an image
AllImages == \A k \in 1..Len(segments) : segments[k].kind # "text" => looks_like_image(segments[k].url)

\* C28: for a text without image syntax and a list of images, extract_images
\* of the text written with the tags of those images returns that list and
\* that text.
C28_RoundTrip ==
    (Extracted /\ AllImages) =>
        /\ images = TagsOf(segments)
        /\ cleaned = TextOf(segments)

\* ------------------------------------------- Discord response gate (discord.py)
MaxRaw == 3             \* length of the DISCORD_FREE_RESPONSE_CHANNELS value

\* the fields of a DiscordMessage the handlers read; the bot's user id is 7,
\* "<@7>" and "<@!7>" are the two forms of its mention
DiscordMessages ==
    [author_is_bot : BOOLEAN,                           \* message.author == self._client.user
     channel : {"DMChannel", "Thread", "TextChannel"},  \* the class of message.channel
     channel_id : {<<"1">>, <<"1", "2">>},              \* str(message.channel.id)
     mentions_bot : BOOLEAN,                            \* self._client.user in message.mentions
     content : {<<"hi">>, <<"<@7>", " ", "hi">>, <<"hi", " ", "<@!7>">>}]

\* str.split(sep): the pieces between the separators
RECURSIVE split(_, _)
split(str, sep) ==
    IF \E i \in 1..Len(str) : str[i] = sep
      THEN LET i == CHOOSE j \in 1..Len(str) :
                       str[j] = sep /\ \A k \in 1..(j - 1) : str[k] # sep
           IN <<SubSeq(str, 1, i - 1)>> \o split(SubSeq(str, i + 1, Len(str)), sep)
      ELSE <<str>>

\* lines 302-303: {ch.strip() for ch in free_channels_raw.split(",") if ch.strip()}
free_channels(raw) ==
    LET pieces == split(IF raw = None THEN <<>> ELSE raw[1], ",")
    IN {strip(pieces[i]) : i \in {j \in 1..Len(pieces) : strip(pieces[j]) # <<>>}}

\* line 307: os.getenv("DISCORD_REQUIRE_MENTION", "true").lower() not in ("false", "0", "no")
require_mention(raw) ==
    lower(IF raw = None THEN <<"true">> ELSE raw[1]) \notin {<<"false">>, <<"0">>, <<"no">>}

\* lines 311-314: the message passes unless a mention is required, the channel
\* is not free and the bot is not mentioned
PassesMentionOnly(m) == m.mentions_bot
Passes(m) ==
    ~(/\ require_mention(require_mention_raw)
      /\ m.channel_id \notin free_channels(free_channels_raw)       \* line 309
      /\ ~m.mentions_bot)

\* str.replace(old, ""): every occurrence removed
replace(str, old) == SelectSeq(str, LAMBDA x : x # old)

\* lines 317-319: the bot's mention is taken out of the text
StripMention(m) ==
    IF m.mentions_bot
      THEN strip(replace(strip(replace(m.content, "<@7>")), "<@!7>"))
      ELSE m.content

\* lines 340-347
ChatType(m) ==
    CASE m.channel = "DMChannel" -> "dm"
      [] m.channel = "Thread" -> "thread"
      [] OTHER -> "group"

GateInit ==
    /\ notGateIdle
    /\ message \in {Some(m) : m \in DiscordMessages}
    /\ free_channels_raw \in
          {None} \cup {Some(r) : r \in UNION {[1..n -> {"1", "2", ",", " "}] : n \in 0..MaxRaw}}
    /\ require_mention_raw \in
          {None, Some(<<>>)}
             \cup {Some(<<v>>) : v \in {"true", "false", "False", "0", "no", "NO", "off"}}
    /\ gpc = "on_message"
    /\ forwarded = None

\* lines 91-96: the bot's own messages are ignored
on_message ==
    /\ gpc = "on_message"
    /\ gpc' = IF message[1].author_is_bot THEN "done" ELSE "_handle_message"
    /\ UNCHANGED <<message, free_channels_raw, require_mention_raw, forwarded>>
    /\ UNCHANGED notGate

\* lines 289-383: the gate, then the event is built and given to handle_message
handle_discord_message ==
    /\ gpc = "_handle_message"
    /\ LET m == message[1]
       IN IF m.channel # "DMChannel" /\ ~Passes(m)
            THEN forwarded' = None                     \* line 314: return
            ELSE forwarded' = Some([text |-> IF m.channel # "DMChannel"
                                               THEN StripMention(m) ELSE m.content,
                                    chat_type |-> ChatType(m),
                                    chat_id |-> m.channel_id])
    /\ gpc' = "done"
    /\ UNCHANGED <<message, free_channels_raw, require_mention_raw>>
    /\ UNCHANGED notGate

GateNext ==
    \/ on_message
    \/ handle_discord_message

GateSpec == GateInit /\ [][GateNext]_vars

\* the channel id is one of the comma-separated entries of DISCORD_FREE_RESPONSE_CHANNELS
OnAllowlist ==
    /\ free_channels_raw # None
    /\ LET raw == free_channels_raw[1]
       IN \E i \in 1..Len(raw) : \E j \in i..Len(raw) :
             /\ i = 1 \/ raw[i - 1] = ","
             /\ j = Len(raw) \/ raw[j + 1] = ","
             /\ \A k \in i..j : raw[k] # ","
             /\ strip(SubSeq(raw, i, j)) = message[1].channel_id

\* DISCORD_REQUIRE_MENTION is set to false ("false", "0" or "no", in any case)
RequireMentionFalse ==
    /\ require_mention_raw # None
    /\ lower(require_mention_raw[1]) \in {<<"false">>, <<"0">>, <<"no">>}

\* C29: once on_message is through, the message was given to handle_message
\* exactly when it is not the bot's own and either it came in a DM channel, or
\* it mentions the bot, or its channel is on the free-response list (whatever
\* DISCORD_REQUIRE_MENTION says), or DISCORD_REQUIRE_MENTION is false.
C29_ResponseGate ==
    gpc = "done" =>
        (forwarded # None <=>
            /\ ~message[1].author_is_bot
            /\ \/ message[1].channel = "DMChannel"
               \/ message[1].mentions_bot
               \/ OnAllowlist
               \/ RequireMentionFalse)

\* a message without mention in a listed server channel was forwarded although
\* a mention is required
C29_Witness ==
    /\ gpc = "done"
    /\ forwarded # None
    /\ message[1].channel = "TextChannel"
    /\ ~message[1].mentions_bot
    /\ OnAllowlist
    /\ require_mention_raw = Some(<<"true">>)

\* ------------------------------------------- send_message tool (send_message_tool.py)
MaxPath == 5            \* length of the file_path argument

\* A path is a string of lexemes: the separator, the parent name and a name.
Paths == UNION {[1..n -> {"/", "..", "a"}] : n \in 0..MaxPath}

\* os.sep on the platforms the gateway runs on (Linux and macOS)
os_sep == "/"

\* line 82: ".." in file_path.split("/") or ".." in file_path.split(os.sep)
has_dotdot(path) ==
    \/ \E i \in 1..Len(split(path, "/")) : split(path, "/")[i] = <<"..">>
    \/ \E i \in 1..Len(split(path, os_sep)) : split(path, os_sep)[i] = <<"..">>

\* what the file system answers for a path: where os.path.realpath leads (the
\* components of the canonical path; the home directory is /home) and what is
\* there
FsAnswers ==
    [real : {<<"tmp">>, <<"tmp", "f">>, <<"tmpx", "f">>, <<"home", ".hermes", "f">>,
             <<"home", "f">>, <<"extra", "f">>, <<"etc", "f">>},
     kind : {"file", "dir", "missing"}]

\* lines 92-104: the resolved path is a trusted directory or below one
\* (resolved == t or t in resolved.parents); extra: HERMES_TRUSTED_DOCUMENT_DIRS
\* is "/extra"
is_trusted_by_name(fs, extra) ==
    fs.real[1] \in {"tmp", "tmpx"} \/ (fs.real[1] = "extra" /\ extra)
is_trusted(fs, extra) ==
    LET trusted_dirs == {<<"home", ".hermes">>, <<"tmp">>, <<"home", "Documents">>}
                           \cup (IF extra THEN {<<"extra">>} ELSE {})
    IN \E t \in trusted_dirs :
          Len(t) <= Len(fs.real) /\ SubSeq(fs.real, 1, Len(t)) = t

\* lines 70-106: _validate_file_path(file_path); error is the string returned
\* (None: the path is accepted), calls are the file system calls made (the
\* last three are the realpath calls of lines 93-95)
validate_resolve_first(path, fs, extra) ==
    IF path = <<>> THEN [error |-> None, calls |-> <<>>]
    ELSE IF fs.kind = "missing"
      THEN [error |-> Some("File not found"), calls |-> <<"realpath", "exists">>]
    ELSE IF has_dotdot(path)
      THEN [error |-> Some("Path traversal detected"), calls |-> <<"realpath", "exists">>]
    ELSE [error |-> None, calls |-> <<"realpath", "exists">>]
validate_file_path(path, fs, extra) ==
    IF path = <<>> THEN [error |-> None, calls |-> <<>>]
    ELSE IF has_dotdot(path)
      THEN [error |-> Some("Path traversal detected"), calls |-> <<>>]
    ELSE IF fs.kind = "missing"
      THEN [error |-> Some("File not found"), calls |-> <<"realpath", "exists">>]
    ELSE IF fs.kind # "file"
      THEN [error |-> Some("Path is not a file"), calls |-> <<"realpath", "exists", "isfile">>]
    ELSE IF ~is_trusted(fs, extra)
      THEN [error |-> Some("File path outside trusted directories"),
            calls |-> <<"realpath", "exists", "isfile", "realpath", "realpath", "realpath">>]
    ELSE [error |-> None, calls |-> <<"realpath", "exists", "isfile", "realpath", "realpath", "realpath">>]

\* what happens after the validation: lines 148-150, 152-156, 169-171, 186-188
Downstream == {"interrupted", "config_failed", "not_configured", "sent", "send_failed"}

\* lines 148-205: from is_interrupted() to the send
after_validation(d) ==
    CASE d = "interrupted" -> [result |-> "Interrupted", calls |-> <<>>]
      [] d = "config_failed" ->
            [result |-> "Failed to load gateway config", calls |-> <<"load_gateway_config">>]
      [] d = "not_configured" ->
            [result |-> "Platform is not configured", calls |-> <<"load_gateway_config">>]
      [] d = "sent" -> [result |-> "success", calls |-> <<"load_gateway_config", "send">>]
      [] OTHER -> [result |-> "send failed", calls |-> <<"load_gateway_config", "send">>]

\* the arguments of a call; the target, when given, has a numeric chat id
ToolArgs ==
    [action : {"send", "list"}, target : {<<>>, <<"telegram", ":", "123">>},
     message : {<<>>, <<"hi">>}, file_path : Paths]

\* lines 109-205: _handle_send(args); validation is what _validate_file_path
\* returned when it was called
handle_send(a, fs, extra, d) ==
    IF a.target = <<>>
      THEN [result |-> "'target' is required", validation |-> None, calls |-> <<>>]
    ELSE IF a.message = <<>> /\ a.file_path = <<>>
      THEN [result |-> "At least one of 'message' or 'file_path' is required",
            validation |-> None, calls |-> <<>>]
    ELSE LET v == validate_file_path(a.file_path, fs, extra)
         IN IF a.file_path # <<>> /\ v.error # None
              THEN [result |-> v.error[1], validation |-> Some(v.error), calls |-> v.calls]
              ELSE [result |-> after_validation(d).result,
                    validation |-> IF a.file_path # <<>> THEN Some(v.error) ELSE None,
                    calls |-> (IF a.file_path # <<>> THEN v.calls ELSE <<>>)
                                 \o after_validation(d).calls]

ToolInit ==
    /\ notToolIdle
    /\ args \in {Some(a) : a \in ToolArgs}
    /\ trusted_extra \in BOOLEAN
    /\ tpc = "call"
    /\ validation = None
    /\ resolved = None
    /\ tool_result = None
    /\ tool_calls = <<>>

\* _validate_file_path(args["file_path"]) called on its own, as the tests do
CallValidate(fs) ==
    /\ tpc = "call"
    /\ LET v == validate_file_path(args[1].file_path, fs, trusted_extra)
       IN /\ validation' = Some(v.error)
          /\ resolved' = IF v.calls # <<>> THEN Some(fs) ELSE None
          /\ tool_calls' = v.calls
    /\ tpc' = "done"
    /\ UNCHANGED <<args, trusted_extra, tool_result>>
    /\ UNCHANGED notTool

\* lines 51-58: send_message_tool(args)
send_message_tool(fs, d) ==
    /\ tpc = "call"
    /\ IF args[1].action = "list"
         THEN /\ tool_result' = Some("targets")              \* lines 61-67
              /\ validation' = None
              /\ resolved' = None
              /\ tool_calls' = <<"format_directory_for_display">>
         ELSE LET r == handle_send(args[1], fs, trusted_extra, d)
              IN /\ tool_result' = Some(r.result)
                 /\ validation' = r.validation
                 /\ resolved' = IF r.calls # <<>> /\ r.calls[1] = "realpath"
                                  THEN Some(fs) ELSE None
                 /\ tool_calls' = r.calls
    /\ tpc' = "done"
    /\ UNCHANGED <<args, trusted_extra>>
    /\ UNCHANGED notTool

ToolNext ==
    \/ \E fs \in FsAnswers : CallValidate(fs)
    \/ \E fs \in FsAnswers : \E d \in Downstream : send_message_tool(fs, d)

ToolSpec == ToolInit /\ [][ToolNext]_vars

\* the path has a segment that is exactly ".."
HasDotDotSegment ==
    LET p == args[1].file_path
    IN \E i \in 1..Len(p) :
          /\ p[i] = ".."
          /\ i = 1 \/ p[i - 1] = "/"
          /\ i = Len(p) \/ p[i + 1] = "/"

\* a call was made of the named kind
Called(c) == \E i \in 1..Len(tool_calls) : tool_calls[i] = c

UnderTrustedRoot ==
    LET real == resolved[1].real
        below(root) == \E n \in 0..Len(real) : SubSeq(real, 1, n) = root
    IN \/ below(<<"home", ".hermes">>)
       \/ below(<<"tmp">>)
       \/ below(<<"home", "Documents">>)
       \/ trusted_extra /\ below(<<"extra">>)

\* _validate_file_path was called for a non-empty path and returned None / an error
Accepted == tpc = "done" /\ args[1].file_path # <<>> /\ validation = Some(None)
Rejected == tpc = "done" /\ validation # None /\ validation[1] # None

\* C31: _validate_file_path accepts a non-empty path only when the file system
\* was asked and the real path is an existing regular file at or below a
\* trusted root; a path whose real path is outside the trusted roots is
\* rejected; and after a rejection no platform send was made.
C31_OnlyTrustedFilesAccepted ==
    /\ Accepted => /\ resolved # None
                   /\ resolved[1].kind = "file"
                   /\ UnderTrustedRoot
    /\ (tpc = "done" /\ resolved # None /\ ~UnderTrustedRoot) => Rejected
    /\ Rejected => ~Called("send")

\* a file below the directory named by HERMES_TRUSTED_DOCUMENT_DIRS was
\* accepted and sent
C31_Witness ==
    /\ Accepted
    /\ resolved[1].real = <<"extra", "f">>
    /\ tool_result = Some("success")
    /\ Called("send")

\* ------------------------------------------- further claims about the turns
\* the step invokes the handler for the turn driven by e
Starts(e) == pc[e] # "handler" /\ pc'[e] = "handler"

\* C32: when the handler is invoked for an event that was taken from the
\* pending slot, no other turn of the session is still running (in its
\* handler or in a send of its response) and no typing task of another turn
\* of the session is running.
C32_PendingStartsAfterDrain ==
    [][\A e \in Submitted :
         (Starts(e) /\ e \in queued) =>
             \A f \in Submitted \ {e} :
                 session_key(f) = session_key(e) =>
                     (~InTurn(f)' /\ typing'[f] # "running")]_vars

\* C33: a typing task runs only while its worker is in its turn: it is
\* cancelled when the turn is over by completion, hand-over or exception, it
\* is over when the worker has handed over or returned, and a chat with a
\* running typing task has a worker in its turn.
C33_TypingCancelledOnExit ==
    /\ \A e \in Submitted :
          /\ typing[e] = "running" => InTurn(e)
          /\ pc[e] \in {"handoff", "finally"} => typing[e] = "cancelling"
          /\ pc[e] \in {"inner", "done"} => typing[e] = "done"
    /\ \A k \in Chats :
          (\E e \in Submitted : session_key(e) = k /\ typing[e] = "running")
              => \E f \in Submitted : session_key(f) = k /\ InTurn(f)

\* one worker returned after an exception and another handed over to a
\* pending event: the typing tasks of both are over
C33_Witness ==
    \E e \in Submitted, f \in Submitted :
        /\ failed[e] /\ pc[e] = "done" /\ typing[e] = "done"
        /\ pc[f] = "inner" /\ typing[f] = "done"

Blocked(i) == rpc = "deliver" /\ in_flight = Some(i) /\ i < Len(targets)

\* C34: a send in flight does not hold up the other targets: while deliver()
\* awaits the send to one target and has further targets, the router can
\* take a step for another target, one that leaves this send in flight.
C34_SendInFlightDoesNotDelay ==
    \A i \in 1..MaxSpecs + 1 :
        Blocked(i) => ENABLED (RouterNext /\ in_flight' = in_flight /\ vars' # vars)

\* C40: the targets of a resolved list have distinct result keys, and when
\* deliver() has attempted them all the result map has one entry per target.
C40_OneEntryPerTarget ==
    /\ Returned =>
          \A p, q \in 1..Len(targets) :
              p # q => to_string(targets[p]) # to_string(targets[q])
    /\ (rpc = "done" /\ Len(attempts) = Len(targets)) =>
          Cardinality(DOMAIN results) = Len(targets)

\* --------------------------------------- further claims on truncate_message
\* the positions (from 1) of ch among the first L characters of str
Among(str, ch, L) == {i \in 1..L : i <= Len(str) /\ str[i] = ch}

\* the length of the piece that the stated preference cuts off a content
\* longer than L: up to the last newline among the first L characters, else
\* up to the last space among them, else L characters
PreferredCut(str, L) ==
    IF Among(str, "\n", L) # {} THEN Max(Among(str, "\n", L)) - 1
    ELSE IF Among(str, " ", L) # {} THEN Max(Among(str, " ", L)) - 1
    ELSE L

\* cs are the pieces cut off str by the preference, one after the other, each
\* cut made in what follows the piece before without its leading whitespace
RECURSIVE CutByPreference(_, _, _)
CutByPreference(str, L, cs) ==
    IF str = <<>> THEN cs = <<>>
    ELSE IF Len(str) <= L THEN cs = <<str>>
    ELSE /\ cs # <<>>
         /\ Head(cs) = SubSeq(str, 1, PreferredCut(str, L))
         /\ CutByPreference(lstrip(SubSeq(str, PreferredCut(str, L) + 1, Len(str))), L, Tail(cs))

\* C35: a content longer than max_length is cut, at every split, at the last
\* newline among the first max_length characters, else at the last space among
\* them, else after exactly max_length characters; the chunks are pieces of
\* the content in source order, and the adapter sends them in that order.
C35_SplitPreferenceInOrder ==
    chunks # None =>
        /\ Len(content) > max_length => CutByPreference(content, max_length, chunks[1])
        /\ Decomposes(content, chunks[1])
        /\ Len(sent) <= Len(chunks[1])
        /\ sent = SubSeq(chunks[1], 1, Len(sent))

\* a content with a newline and a later space among its first max_length
\* characters was cut at the newline, and all its chunks were sent
C35_Witness ==
    /\ chunks # None
    /\ send_result = Some(TRUE)
    /\ Len(chunks[1]) >= 2
    /\ sent = chunks[1]
    /\ \E i, j \in 1..max_length :
          /\ i < j /\ content[i] = "\n" /\ content[j] = " "
          /\ \A n \in (i + 1)..max_length : content[n] # "\n"
          /\ chunks[1][1] = SubSeq(content, 1, i - 1)
          /\ i > 1

\* C37: every iteration of the loop of truncate_message shortens the
\* remaining content, and no chunk of a non-empty content is empty.
C37_TerminatesWithoutEmptyChunk ==
    /\ Len(content) > max_length /\ max_length >= 1 =>
          Len(Remainder(content, SplitIdx(content, max_length))) < Len(content)
    /\ (chunks # None /\ content # <<>>) =>
          \A i \in 1..Len(chunks[1]) : chunks[1][i] # <<>>

\* ------------------------------------------ further claims on extract_images
\* piece occurs in str, contiguously
Contains(str, piece) ==
    \E i \in 0..(Len(str) - Len(piece)) : SubSeq(str, i + 1, i + Len(piece)) = piece

\* C38: extract_images deletes from the text only tags it returns as images:
\* a markdown tag whose URL is not taken for an image is still in the cleaned
\* text, and when no image is returned the text is returned as it was.
C38_OnlyReturnedTagsRemoved ==
    Extracted =>
        /\ images = <<>> => cleaned = response_text
        /\ \A k \in 1..Len(segments) :
              (segments[k].kind = "md" /\ ~Extractable(segments[k]))
                  => Contains(cleaned, segments[k].str)

\* ------------------------------------------- the local sink (delivery.py)
MaxDeliveries == 3      \* number of _deliver_local calls
MaxTicks == 3           \* the last tick of the clock
TicksPerSecond == 2     \* the clock is read in half seconds

\* line 211: datetime.now().strftime("%Y%m%d_%H%M%S") keeps the whole seconds
strftime(t) == t \div TicksPerSecond

\* lines 213-216: output_dir / (job_id or "misc") / f"{timestamp}.md"
output_path(job_id, timestamp) ==
    <<IF job_id # None THEN job_id[1] ELSE "misc", timestamp>>

\* Path.write_text: the file is created or replaced
write_text(fs, path, text) ==
    [p \in DOMAIN fs \cup {path} |-> IF p = path THEN text ELSE fs[p]]

LocalInit ==
    /\ notLocalIdle
    /\ now = 0
    /\ files = <<>>
    /\ local_results = <<>>

\* time passes
Tick ==
    /\ now < MaxTicks
    /\ now' = now + 1
    /\ UNCHANGED <<files, local_results>>
    /\ UNCHANGED notLocal

\* lines 203-247: _deliver_local(content, job_id, ...); the content of the
\* n-th call is n
deliver_local(job_id) ==
    /\ Len(local_results) < MaxDeliveries
    /\ LET content_n == Len(local_results) + 1
           timestamp == strftime(now)
           path == output_path(job_id, timestamp)
       IN /\ files' = write_text(files, path, content_n)
          /\ local_results' = Append(local_results,
                 [job_id |-> job_id, path |-> path, timestamp |-> timestamp])
    /\ UNCHANGED now
    /\ UNCHANGED notLocal

LocalNext ==
    \/ Tick
    \/ \E job_id \in {None, Some("j1"), Some("j2")} : deliver_local(job_id)

LocalSpec == LocalInit /\ [][LocalNext]_vars

\* C39: two local deliveries with the same job_id (or both without one) have
\* different paths, and the file of every delivery still holds its content.
C39_OwnFilePerDelivery ==
    /\ \A i, j \in 1..Len(local_results) :
          (i # j /\ local_results[i].job_id = local_results[j].job_id)
              => local_results[i].path # local_results[j].path
    /\ \A i \in 1..Len(local_results) : files[local_results[i].path] = i
=============================================================================
